---------------------------- MODULE Spec2Model ----------------------------
(***************************************************************************)
(* Model of the response classifier of robobo1221/afostoClassifier:        *)
(*   - the P-square estimator (package psqr),                              *)
(*   - the sqlite repository (package database),                           *)
(*   - the per-connection classifier and the registry (package classifier).*)
(*                                                                         *)
(* float64 values are modelled as exact rationals <<num, den>> in lowest   *)
(* terms with den > 0; den = 0 encodes the IEEE specials: <<1,0>> = +Inf,  *)
(* <<-1,0>> = -Inf, <<0,0>> = NaN.  Rounding of float64 is not modelled.   *)
(* Arrays of length five keep the source's indices 0..4.                   *)
(***************************************************************************)
EXTENDS Integers, Sequences, FiniteSets, TLC

\* ------------------------------------------------------------------ bounds
\* calls of DispatchWithParamsAndClassify in a sequential run
MaxCalls == 4
\* calls in a concurrent run, and goroutines running at the same time
MaxCallsConc == 4
MaxActive == 2
\* calls of the repository in a run of repository operations
MaxRepoOps == 4
\* calls of Add and Reset on one estimator
MaxPsqrOps == 8
\* calls of Add with one and the same value
MaxConstAdds == 12
\* scores pushed through the filter of one classifier
MaxPushes == 7
\* successful calls in a row on one connection
MaxStream == 7
\* observations scored against one ceiling
MaxScored == 3
\* calls on a connection whose snapshot row can be lost
MaxLoss == 5
\* calls with successes and 4xx responses on one connection
MaxMix == 8
\* calls followed over two windows of 7
MaxWindow == 13
\* the largest response time scored against a ceiling
MaxElapsed == 60

\* ------------------------------------------------------------- float64
Abs(i) == IF i < 0 THEN -i ELSE i

Sgn(i) == IF i < 0 THEN -1 ELSE IF i > 0 THEN 1 ELSE 0

RECURSIVE GCD(_, _)
GCD(a, b) == IF b = 0 THEN a ELSE GCD(b, a % b)

Rat(n, d) ==
    IF d = 0 THEN <<Sgn(n), 0>>
    ELSE LET g == GCD(Abs(n), Abs(d))
         IN  <<(Sgn(d) * n) \div g, Abs(d) \div g>>

F(i) == <<i, 1>>

NaN == <<0, 0>>
PosInf == <<1, 0>>
NegInf == <<-1, 0>>
IsNaN(x) == x = NaN
IsInf(x) == x[2] = 0 /\ x[1] # 0
IsFinite(x) == x[2] # 0

FAdd(x, y) ==
    IF IsNaN(x) \/ IsNaN(y) THEN NaN
    ELSE IF IsInf(x) /\ IsInf(y) THEN (IF x = y THEN x ELSE NaN)
    ELSE IF IsInf(x) THEN x
    ELSE IF IsInf(y) THEN y
    ELSE Rat(x[1] * y[2] + y[1] * x[2], x[2] * y[2])

FNeg(x) == <<-x[1], x[2]>>

FSub(x, y) == FAdd(x, FNeg(y))

FMul(x, y) == Rat(x[1] * y[1], x[2] * y[2])

FDiv(x, y) ==
    IF IsNaN(x) \/ IsNaN(y) THEN NaN
    ELSE IF IsInf(y) THEN (IF IsInf(x) THEN NaN ELSE F(0))
    ELSE IF y[1] = 0 THEN <<Sgn(x[1]), 0>>
    ELSE IF IsInf(x) THEN <<x[1] * Sgn(y[1]), 0>>
    ELSE Rat(x[1] * y[2], x[2] * y[1])

FLt(x, y) ==
    IF IsNaN(x) \/ IsNaN(y) THEN FALSE
    ELSE IF IsInf(x) /\ IsInf(y) THEN x[1] < y[1]
    ELSE IF IsInf(x) THEN x[1] < 0
    ELSE IF IsInf(y) THEN y[1] > 0
    ELSE x[1] * y[2] < y[1] * x[2]

FLe(x, y) == FLt(x, y) \/ (~IsNaN(x) /\ x = y)

FGt(x, y) == FLt(y, x)

FGe(x, y) == FLe(y, x)

\* math.Min and math.Max of the Go standard library
MathMin(x, y) ==
    IF x = NegInf \/ y = NegInf THEN NegInf
    ELSE IF IsNaN(x) \/ IsNaN(y) THEN NaN
    ELSE IF FLt(x, y) THEN x ELSE y

MathMax(x, y) ==
    IF x = PosInf \/ y = PosInf THEN PosInf
    ELSE IF IsNaN(x) \/ IsNaN(y) THEN NaN
    ELSE IF FGt(x, y) THEN x ELSE y

Idx == 0 .. 4

\* ------------------------------------------------------------- package psqr
\* percentile := 0.95 in Classify
Percentile == <<19, 20>>

\* the zero value of Psqr with Perc set (NewPsqr before Reset)
ZeroPsqr(perc) ==
    [Perc |-> perc, Count |-> 0,
     Q |-> [i \in Idx |-> F(0)], N |-> [i \in Idx |-> 0],
     Np |-> [i \in Idx |-> F(0)], Dn |-> [i \in Idx |-> F(0)]]

InitialDn(q) ==
    [i \in Idx |-> CASE i = 0 -> F(0)
                     [] i = 1 -> FMul(q, <<1, 2>>)
                     [] i = 2 -> q
                     [] i = 3 -> FMul(FAdd(F(1), q), <<1, 2>>)
                     [] i = 4 -> F(1)]

\* a variant of Reset that clears the marker heights as well
ResetClearsQ(p) ==
    LET dn == InitialDn(p.Perc)
    IN  [p EXCEPT !.Count = 0,
                  !.Dn = dn,
                  !.Q = [i \in Idx |-> F(0)],
                  !.N = [i \in Idx |-> i + 1],
                  !.Np = [i \in Idx |-> FAdd(FMul(dn[i], F(4)), F(1))]]

\* a variant of Reset that leaves the marker positions where they are
ResetKeepsN(p) ==
    LET dn == InitialDn(p.Perc)
    IN  [p EXCEPT !.Count = 0,
                  !.Dn = dn,
                  !.Np = [i \in Idx |-> FAdd(FMul(dn[i], F(4)), F(1))]]

Reset(p) ==
    LET dn == InitialDn(p.Perc)
    IN  [p EXCEPT !.Count = 0,
                  !.Dn = dn,
                  !.N = [i \in Idx |-> i + 1],
                  !.Np = [i \in Idx |-> FAdd(FMul(dn[i], F(4)), F(1))]]

NewPsqr(q) == Reset(ZeroPsqr(q))

sign(f) == IF FLt(f, F(0)) THEN -1 ELSE 1

parabolic(p, i, d) ==
    LET qi == p.Q[i]
        qip1 == p.Q[i + 1]
        qim1 == p.Q[i - 1]
        ni == F(p.N[i])
        nip1 == F(p.N[i + 1])
        nim1 == F(p.N[i - 1])
        df == F(d)
    IN  FAdd(qi,
             FMul(FDiv(df, FSub(nip1, nim1)),
                  FAdd(FDiv(FMul(FAdd(FSub(ni, nim1), df), FSub(qip1, qi)),
                            FSub(nip1, ni)),
                       FDiv(FMul(FSub(FSub(nip1, ni), df), FSub(qi, qim1)),
                            FSub(ni, nim1)))))

\* a variant of the linear formula that moves the height by a whole unit
linearUnitStep(p, i, d) == FAdd(p.Q[i], F(d))

linear(p, i, d) ==
    FAdd(p.Q[i],
         FDiv(FMul(F(d), FSub(p.Q[i + d], p.Q[i])),
              F(p.N[i + d] - p.N[i])))

\* the insertion sort of the first five observations
RECURSIVE SortInner(_, _)
SortInner(q, j) ==
    IF j > 0 /\ FGt(q[j - 1], q[j])
    THEN SortInner([q EXCEPT ![j] = q[j - 1], ![j - 1] = q[j]], j - 1)
    ELSE q

\* a variant of the sort of the first five observations that sorts nothing
SortFirstSkipped(q, i) == q

RECURSIVE SortFirst(_, _)
SortFirst(q, i) ==
    IF i < 5 THEN SortFirst(SortInner(q, i), i + 1) ELSE q

\* the scan "for k = 0; k < 5; k++ { if v < p.Q[k] { break } }"
RECURSIVE FindCell(_, _, _)
FindCell(q, v, k) ==
    IF k < 5 /\ ~FLt(v, q[k]) THEN FindCell(q, v, k + 1) ELSE k

\* a variant of the adjustment without the tests of the gap to the
\* neighbouring marker
AdjustMarkerUnguarded(p, i) ==
    LET d == FSub(p.Np[i], F(p.N[i]))
    IN  IF FGe(d, F(1)) \/ FLe(d, F(-1))
        THEN LET ds == sign(d)
                 qp == parabolic(p, i, ds)
                 qn == IF FLt(p.Q[i - 1], qp) /\ FLt(qp, p.Q[i + 1])
                       THEN qp
                       ELSE linear(p, i, ds)
             IN  [p EXCEPT !.Q[i] = qn, !.N[i] = p.N[i] + ds]
        ELSE p

\* one iteration of "adjust heights of markers 2-4 if necessary"
AdjustMarker(p, i) ==
    LET d == FSub(p.Np[i], F(p.N[i]))
    IN  IF (FGe(d, F(1)) /\ p.N[i + 1] - p.N[i] > 1)
           \/ (FLe(d, F(-1)) /\ p.N[i - 1] - p.N[i] < -1)
        THEN LET ds == sign(d)
                 qp == parabolic(p, i, ds)
                 qn == IF FLt(p.Q[i - 1], qp) /\ FLt(qp, p.Q[i + 1])
                       THEN qp
                       ELSE linear(p, i, ds)
             IN  [p EXCEPT !.Q[i] = qn, !.N[i] = p.N[i] + ds]
        ELSE p

\* Add from the sixth observation on, lines 732-753: the count, the cell,
\* the extreme heights, the positions and the desired positions
AddPositions(p, v) ==
    LET k0 == FindCell(p.Q, v, 0)
        k == IF k0 = 0 THEN 1 ELSE IF k0 = 5 THEN 4 ELSE k0
        q1 == IF k0 = 0 THEN [p.Q EXCEPT ![0] = v]
              ELSE IF k0 = 5 THEN [p.Q EXCEPT ![4] = v]
              ELSE p.Q
    IN  [p EXCEPT !.Count = p.Count + 1,
                  !.Q = q1,
                  !.N = [i \in Idx |-> IF i >= k THEN p.N[i] + 1
                                       ELSE p.N[i]],
                  !.Np = [i \in Idx |-> FAdd(p.Np[i], p.Dn[i])]]

Add(p, v) ==
    IF p.Count < 5
    THEN LET q1 == [p.Q EXCEPT ![p.Count] = v]
             c1 == p.Count + 1
         IN  [p EXCEPT !.Count = c1,
                       !.Q = IF c1 = 5 THEN SortFirst(q1, 1) ELSE q1]
    ELSE AdjustMarker(AdjustMarker(AdjustMarker(AddPositions(p, v), 1), 2), 3)

Get(p) == p.Q[2]


\* --------------------------------------------------------- package database
\* A database is [psqr, connection, seq]: the psqr table as a function from
\* the ids of its rows, the connection table as its rows in insertion order,
\* and the AUTOINCREMENT sequence of psqr.  Foreign keys are not enforced:
\* the modernc.org/sqlite driver does not know the "_foreign_keys" DSN key.
NULL == 0

EmptyDb == [psqr |-> <<>>, connection |-> <<>>, seq |-> 0]

\* what the readers return on sql.ErrNoRows
ZeroRow ==
    [id |-> 0, previousPsqrId |-> NULL, perc |-> F(0), count |-> 0,
     q |-> [i \in Idx |-> F(0)], n |-> [i \in Idx |-> 0],
     np |-> [i \in Idx |-> F(0)], dn |-> [i \in Idx |-> F(0)]]

RowOf(id, r) ==
    [id |-> id, previousPsqrId |-> r.previousPsqrId, perc |-> r.perc,
     count |-> r.count, q |-> r.q, n |-> r.n, np |-> r.np, dn |-> r.dn]

\* the column "currentPsqr%dId" is named after int(perc*100); the schema has
\* the column of 0.95 only, and a statement naming another column fails
PsqrColumn(perc) == (perc[1] * 100) \div perc[2]

HasColumn(perc) == PsqrColumn(perc) = PsqrColumn(<<19, 20>>)

\* "SELECT currentPsqr95Id FROM connection WHERE connectionOrigin = ?":
\* the first matching row, 0 when there is none (HasColumn(perc) assumed)
SelectCurrentPsqrId(d, connection, perc) ==
    LET hits == {i \in DOMAIN d.connection :
                    d.connection[i].connectionOrigin = connection}
    IN  IF hits = {} THEN 0
        ELSE d.connection[CHOOSE i \in hits : \A j \in hits : i <= j].currentPsqr95Id

GetPsqr(d, id) ==
    IF id \in DOMAIN d.psqr THEN RowOf(id, d.psqr[id]) ELSE ZeroRow

GetPsqrTransactional(d, id) == GetPsqr(d, id)

GetPsqrFromConnection(d, connection, perc) ==
    LET psqrId == SelectCurrentPsqrId(d, connection, perc)
    IN  IF psqrId = 0 THEN ZeroRow ELSE GetPsqr(d, psqrId)

GetPsqrFromConnectionTransactional(d, connection, perc) ==
    LET psqrId == SelectCurrentPsqrId(d, connection, perc)
    IN  IF psqrId = 0 THEN ZeroRow ELSE GetPsqrTransactional(d, psqrId)

\* "INSERT INTO psqr (perc, count, q0.., n0.., np0.., dn0..)"; the new id
\* is d.seq + 1 and previousPsqrId is left NULL
CreatePsqrTransactional(d, perc, count, q, n, np, dn) ==
    LET id == d.seq + 1
        row == [previousPsqrId |-> NULL, perc |-> perc, count |-> count,
                q |-> q, n |-> n, np |-> np, dn |-> dn]
    IN  [d EXCEPT !.seq = id,
                  !.psqr = [i \in DOMAIN d.psqr \cup {id} |->
                               IF i = id THEN row ELSE d.psqr[i]]]

\* a variant of UpdatePsqrWithTx whose UPDATE leaves the column count out
UpdatePsqrWithTxKeepsCount(d, id, x) ==
    IF id \in DOMAIN d.psqr
    THEN [d EXCEPT !.psqr[id] =
             [previousPsqrId |-> d.psqr[id].previousPsqrId,
              perc |-> x.Perc, count |-> d.psqr[id].count,
              q |-> x.Q, n |-> x.N, np |-> x.Np, dn |-> x.Dn]]
    ELSE d

\* "UPDATE psqr SET perc = ?, count = ?, ... WHERE id = ?"
UpdatePsqrWithTx(d, id, x) ==
    IF id \in DOMAIN d.psqr
    THEN [d EXCEPT !.psqr[id] =
             [previousPsqrId |-> d.psqr[id].previousPsqrId,
              perc |-> x.Perc, count |-> x.Count,
              q |-> x.Q, n |-> x.N, np |-> x.Np, dn |-> x.Dn]]
    ELSE d

\* "INSERT INTO connection (connectionOrigin, currentPsqr95Id)"
InsertConnection(d, connection, id) ==
    [d EXCEPT !.connection =
        Append(d.connection,
               [connectionOrigin |-> connection, currentPsqr95Id |-> id])]

\* "UPDATE connection SET currentPsqr95Id = ? WHERE connectionOrigin = ?"
SetNewPsqrTransactional(d, connection, id, perc) ==
    [d EXCEPT !.connection =
        [i \in DOMAIN d.connection |->
            IF d.connection[i].connectionOrigin = connection
            THEN [d.connection[i] EXCEPT !.currentPsqr95Id = id]
            ELSE d.connection[i]]]

\* "UPDATE psqr SET previousPsqrId = ? WHERE id = ?"
SetPreviousPsqrTransactional(d, newCurrentId, oldCurrentId) ==
    IF newCurrentId \in DOMAIN d.psqr
    THEN [d EXCEPT !.psqr[newCurrentId].previousPsqrId = oldCurrentId]
    ELSE d

\* a variant of DeletePsqr that deletes nothing
DeletePsqrKeepsRow(d, id) == d

\* "DELETE FROM psqr WHERE id = ?"
DeletePsqr(d, id) ==
    [d EXCEPT !.psqr = [i \in DOMAIN d.psqr \ {id} |-> d.psqr[i]]]

\* the whole transaction of InsertConnectionWithPsqr; x is the estimator
InsertConnectionWithPsqr(d, connection, x) ==
    LET psqrId == SelectCurrentPsqrId(d, connection, x.Perc)
    IN  IF psqrId # 0
        THEN UpdatePsqrWithTx(d, psqrId, x)
        ELSE LET d1 == CreatePsqrTransactional(d, x.Perc, x.Count,
                                               x.Q, x.N, x.Np, x.Dn)
             IN  InsertConnection(d1, connection, d1.seq)

\* a variant of SwapPsqr that creates the new snapshot before it tests
\* whether the connection has a current one, and keeps it
SwapPsqrCreatesFirst(d, connection, perc) ==
    LET cur == GetPsqrFromConnectionTransactional(d, connection, perc)
        d1 == CreatePsqrTransactional(d, cur.perc, 0, cur.q, cur.n,
                                      cur.np, cur.dn)
    IN  IF cur.perc = F(0)
        THEN [db |-> d1, ret |-> -1]
        ELSE LET newId == d1.seq
                 d2 == SetNewPsqrTransactional(d1, connection, newId, cur.perc)
                 d3 == SetPreviousPsqrTransactional(d2, newId, cur.id)
                 d4 == IF cur.previousPsqrId # NULL
                       THEN DeletePsqr(d3, cur.previousPsqrId) ELSE d3
             IN  [db |-> d4, ret |-> newId]

\* the whole transaction of SwapPsqr: [db, ret]
SwapPsqr(d, connection, perc) ==
    LET cur == GetPsqrFromConnectionTransactional(d, connection, perc)
    IN  IF cur.perc = F(0)
        THEN [db |-> d, ret |-> -1]
        ELSE LET d1 == CreatePsqrTransactional(d, cur.perc, 0, cur.q,
                                               cur.n, cur.np, cur.dn)
                 newId == d1.seq
                 d2 == SetNewPsqrTransactional(d1, connection, newId, cur.perc)
                 d3 == SetPreviousPsqrTransactional(d2, newId, cur.id)
                 d4 == IF cur.previousPsqrId # NULL
                       THEN DeletePsqr(d3, cur.previousPsqrId)
                       ELSE d3
             IN  [db |-> d4, ret |-> newId]


\* ------------------------------------------------------- package classifier
\* the inputs of the model
Connections == {"a", "b"}
Elapsed == {10, 50}
Codes == {200, 404, 503}

\* maxAbsoluteTime = 1e10 for a negative argument; TLC's integers are 32 bits
\* wide, so the model uses a ceiling that is likewise above every product
\* maxPercentileMult * p90 it can form
UnboundedTime == 1000000

\* the parameter lists a caller passes: maxPercentileMult, include4xx,
\* windowSize, maxAbsoluteTime
Configs ==
    { [maxPercentileMult |-> F(1), include4xx |-> TRUE,
       windowSize |-> 2, maxAbsoluteTime |-> -1],
      [maxPercentileMult |-> F(1), include4xx |-> FALSE,
       windowSize |-> 3, maxAbsoluteTime |-> 30] }

NewResponse(time, code) == [time |-> time, code |-> code]

NewResponseClassifier(connectionName, maxPercentileMult, include4xx, windowSize, maxAbsoluteTime) ==
    [mu |-> 0,
     connectionName |-> connectionName,
     maxPercentileMult |-> maxPercentileMult,
     maxAbsoluteTime |-> IF maxAbsoluteTime < 0 THEN UnboundedTime
                         ELSE maxAbsoluteTime,
     include4xx |-> include4xx,
     currentResponse |-> NewResponse(0, 0),
     currentScore |-> F(1),
     windowSize |-> windowSize,
     lastFiveScores |-> [i \in 1 .. 5 |-> F(0)]]

SetResponse(rc, time, code) ==
    [rc EXCEPT !.currentResponse = NewResponse(time, code)]

\* the estimator filled from a row, as getPsqr and getPreviousPsqr do:
\* NewPsqr(perc) with Count, Q, N, Np and Dn overwritten
FillPsqr(perc, row) ==
    [Perc |-> perc, Count |-> row.count, Q |-> row.q, N |-> row.n,
     Np |-> row.np, Dn |-> row.dn]

\* getPsqr on the row that GetPsqrFromConnection returned
getPsqrOf(row, perc) ==
    IF row.perc = F(0)
    THEN [id |-> -1, previousId |-> NULL, psqrObj |-> NewPsqr(perc)]
    ELSE [id |-> row.id, previousId |-> row.previousPsqrId,
          psqrObj |-> FillPsqr(perc, row)]

getPsqr(d, rc, perc) ==
    getPsqrOf(GetPsqrFromConnection(d, rc.connectionName, perc), perc)

\* getPreviousPsqr on the row that GetPsqr returned
getPreviousPsqrOf(row) ==
    IF row.perc = F(0) THEN NewPsqr(row.perc) ELSE FillPsqr(row.perc, row)

getPreviousPsqr(d, id) == getPreviousPsqrOf(GetPsqr(d, id))

RECURSIVE SumScores(_, _)
SumScores(s, i) ==
    IF i > Len(s) THEN F(0) ELSE FAdd(s[i], SumScores(s, i + 1))

\* the buffer after the append and the drop of the oldest score
PushScore(lastFiveScores, score) ==
    LET a == Append(lastFiveScores, score)
    IN  IF Len(a) > 5 THEN Tail(a) ELSE a

\* applyLowPassFilter: [lastFiveScores, average]
applyLowPassFilter(rc, score) ==
    LET buf == PushScore(rc.lastFiveScores, score)
    IN  [lastFiveScores |-> buf,
         average |-> FDiv(SumScores(buf, 1), F(Len(buf)))]

\* a variant of the test of line 170 that leaves include4xx out
IsErrorResponseOnly5xx(rc) == rc.currentResponse.code >= 500

IsErrorResponse(rc) ==
    (rc.currentResponse.code >= 400 /\ rc.include4xx)
        \/ rc.currentResponse.code >= 500

\* a variant of the blend whose weight of the current snapshot is not
\* divided by the window size
BlendedP90Unnormalised(rc, psqrObj, previousId, previousPsqr) ==
    IF previousId # NULL
    THEN LET w2 == F((psqrObj.Count % rc.windowSize) + 1)
             w1 == FSub(F(1), w2)
         IN  FAdd(FMul(w1, Get(previousPsqr)), FMul(w2, Get(psqrObj)))
    ELSE Get(psqrObj)

\* p90 of Classify, lines 185-196
BlendedP90(rc, psqrObj, previousId, previousPsqr) ==
    IF previousId # NULL
    THEN LET n == psqrObj.Count
             w2 == FDiv(F((n % rc.windowSize) + 1), F(rc.windowSize))
             w1 == FSub(F(1), w2)
         IN  FAdd(FMul(w1, Get(previousPsqr)), FMul(w2, Get(psqrObj)))
    ELSE Get(psqrObj)

\* a variant of the score that divides by the smaller of the ceiling and
\* the response time
RawScoreOverMin(rc, psqrObj, previousId, previousPsqr) ==
    IF previousId # NULL \/ psqrObj.Count > 5
    THEN LET p90 == BlendedP90(rc, psqrObj, previousId, previousPsqr)
             t == F(rc.currentResponse.time)
             upperLimit == MathMin(FMul(rc.maxPercentileMult, p90),
                                   F(rc.maxAbsoluteTime))
         IN  FAdd(FMul(FDiv(FSub(upperLimit, t), MathMin(upperLimit, t)),
                       <<1, 2>>),
                  <<1, 2>>)
    ELSE F(1)

\* the score before the filter, lines 186-201
RawScore(rc, psqrObj, previousId, previousPsqr) ==
    IF previousId # NULL \/ psqrObj.Count > 5
    THEN LET p90 == BlendedP90(rc, psqrObj, previousId, previousPsqr)
             t == F(rc.currentResponse.time)
             upperLimit == MathMin(FMul(rc.maxPercentileMult, p90),
                                   F(rc.maxAbsoluteTime))
         IN  FAdd(FMul(FDiv(FSub(upperLimit, t), MathMax(upperLimit, t)),
                       <<1, 2>>),
                  <<1, 2>>)
    ELSE F(1)

\* lines 203-212: filter the score and store it
StoreScore(rc, score) ==
    LET f == applyLowPassFilter(rc, score)
    IN  [rc EXCEPT !.lastFiveScores = f.lastFiveScores,
                   !.currentScore = f.average]

\* a variant of the test of line 216 that counts the window without the
\* observation being classified
WindowFullBeforeAdd(rc, psqrObj) ==
    psqrObj.Count > 0 /\ psqrObj.Count % rc.windowSize = 0

\* line 216
WindowFull(rc, psqrObj) == (psqrObj.Count + 1) % rc.windowSize = 0

\* a variant of the test of line 224 that lets every response below 500
\* into the estimator
IsSuccessfulBelow500(rc) == rc.currentResponse.code < 500

\* line 224
IsSuccessful(rc) == rc.currentResponse.code < 400

RegisterData(d, rc, psqrObj) ==
    InsertConnectionWithPsqr(d, rc.connectionName, psqrObj)

\* a variant of Classify that scores after the Add: the estimate it scores
\* against has absorbed the observation being classified
ClassifyLoadedScoresAfterAdd(rc, d, g, previousPsqr) ==
    LET full == WindowFull(rc, g.psqrObj)
        ok == IsSuccessful(rc)
        d1 == IF full THEN SwapPsqr(d, rc.connectionName, Percentile).db
              ELSE d
        p1 == IF full THEN Reset(g.psqrObj) ELSE g.psqrObj
        p2 == IF ok THEN Add(p1, F(rc.currentResponse.time)) ELSE p1
        rc1 == StoreScore(rc, RawScore(rc, p2, g.previousId, previousPsqr))
    IN  [rc |-> rc1,
         db |-> IF ok THEN RegisterData(d1, rc, p2) ELSE d1,
         ret |-> rc1.currentScore,
         psqrObj |-> p2, previousId |-> g.previousId,
         swapped |-> full, registered |-> ok]

\* lines 185-230 of Classify on the estimators g (of getPsqr) and
\* previousPsqr (of getPreviousPsqr) once they are loaded
ClassifyLoaded(rc, d, g, previousPsqr) ==
    LET rc1 == StoreScore(rc, RawScore(rc, g.psqrObj, g.previousId,
                                       previousPsqr))
        full == WindowFull(rc, g.psqrObj)
        ok == IsSuccessful(rc)
        d1 == IF full THEN SwapPsqr(d, rc.connectionName, Percentile).db
              ELSE d
        p1 == IF full THEN Reset(g.psqrObj) ELSE g.psqrObj
        p2 == IF ok THEN Add(p1, F(rc.currentResponse.time)) ELSE p1
    IN  [rc |-> rc1,
         db |-> IF ok THEN RegisterData(d1, rc, p2) ELSE d1,
         ret |-> rc1.currentScore,
         psqrObj |-> p2, previousId |-> g.previousId,
         swapped |-> full, registered |-> ok]

\* Classify run without interruption: the classifier, the database and the
\* returned score, with the locals psqrObj and previousId as they end and
\* whether SwapPsqr and RegisterData were called
Classify(rc, d) ==
    IF IsErrorResponse(rc)
    THEN [rc |-> [rc EXCEPT !.currentScore = F(0)], db |-> d, ret |-> F(0),
          psqrObj |-> NewPsqr(Percentile), previousId |-> NULL,
          swapped |-> FALSE, registered |-> FALSE]
    ELSE LET g == getPsqr(d, rc, Percentile)
         IN  ClassifyLoaded(rc, d, g,
                            IF g.previousId # NULL
                            THEN getPreviousPsqr(d, g.previousId)
                            ELSE NewPsqr(Percentile))

\* Classify divides by rc.windowSize at line 216 for every response that is
\* not an error (and at line 193 before it when a previous snapshot exists):
\* with windowSize = 0 the integer division panics, and no caller recovers
Panics(rc) == ~IsErrorResponse(rc) /\ rc.windowSize = 0

\* what RecordMetrics reads from the classifier
RecordMetrics(rc) ==
    [connection_name |-> rc.connectionName,
     status_code |-> rc.currentResponse.code,
     http_response_time |-> rc.currentResponse.time,
     http_request_score |-> rc.currentScore]

\* TotalRequests.Add(ctx, 60, ...) with the attributes connection_name and
\* status_code
CounterIncrement == 60

TotalRequestsAdd(counter, rc) ==
    [counter EXCEPT ![<<rc.connectionName, rc.currentResponse.code>>] =
        @ + CounterIncrement]

NoTelemetry ==
    [connection_name |-> "", status_code |-> 0, http_response_time |-> 0,
     http_request_score |-> F(0)]


\* -------------------------------------------------------------------- state
VARIABLES
    classifiers,    \* rcs.classifiers: connection name -> classifier, 0 = no key
    heap,           \* the ResponseClassifier objects allocated so far
    db,             \* the sqlite database
    dbConn,         \* the goroutine holding the one pooled connection, 0 = free
    proc,           \* the goroutines running DispatchWithParamsAndClassify
    telemetry,      \* the last record RecordMetrics emitted
    totalRequests,  \* http_total_requests per <<connection_name, status_code>>
    calls,          \* calls started so far
    crashed         \* the process has exited (log.Fatalf, runtime fatal error)

vars == <<classifiers, heap, db, dbConn, proc, telemetry, totalRequests,
          calls, crashed>>

Procs == 1 .. MaxActive

DefaultConfig == CHOOSE c \in Configs : c.windowSize = 2

\* the locals of one call; the fields below ret are those of Classify,
\* SwapPsqr and InsertConnectionWithPsqr
IdleProc ==
    [pc |-> "idle", connection |-> "", cfg |-> DefaultConfig,
     respTime |-> 0, code |-> 0,
     cls |-> 0, hit |-> FALSE, ret |-> F(0),
     psqrObj |-> NewPsqr(Percentile), previousId |-> NULL,
     previousPsqr |-> NewPsqr(Percentile),
     swapped |-> FALSE, registered |-> FALSE,
     psqrId |-> 0, txCur |-> ZeroRow, newId |-> 0]

Init ==
    /\ classifiers = [c \in Connections |-> 0]
    /\ heap = <<>>
    /\ db = EmptyDb
    /\ dbConn = 0
    /\ proc = [p \in Procs |-> IdleProc]
    /\ telemetry = NoTelemetry
    /\ totalRequests = [a \in Connections \X Codes |-> 0]
    /\ calls = 0
    /\ crashed = FALSE

\* ------------------------------------------- calls that run one at a time
\* DispatchWithParamsAndClassify from its first line to its return, with no
\* other goroutine running
DispatchCall(connection, cfg, respTime, code) ==
    /\ ~crashed
    /\ LET hit == classifiers[connection] # 0
           cls == IF hit THEN classifiers[connection] ELSE Len(heap) + 1
           rc0 == IF hit THEN heap[cls]
                  ELSE NewResponseClassifier(connection,
                           cfg.maxPercentileMult, cfg.include4xx,
                           cfg.windowSize, cfg.maxAbsoluteTime)
           rc1 == SetResponse(rc0, respTime, code)
       IN  IF Panics(rc1)
           THEN \* the process exits inside Classify, before SwapPsqr,
                \* RegisterData, RecordMetrics and the store into the map
                /\ crashed' = TRUE
                /\ proc' = [proc EXCEPT ![1] =
                       [IdleProc EXCEPT
                           !.pc = "panic", !.connection = connection,
                           !.cfg = IF hit THEN DefaultConfig ELSE cfg,
                           !.respTime = respTime, !.code = code,
                           !.cls = cls, !.hit = hit]]
                /\ UNCHANGED <<heap, db, telemetry, totalRequests,
                               classifiers>>
           ELSE \E r \in {Classify(rc1, db)} :
                /\ heap' = IF hit THEN [heap EXCEPT ![cls] = r.rc]
                           ELSE Append(heap, r.rc)
                /\ db' = r.db
                /\ telemetry' = RecordMetrics(r.rc)
                /\ totalRequests' = TotalRequestsAdd(totalRequests, r.rc)
                /\ classifiers' = IF hit THEN classifiers
                                  ELSE [classifiers EXCEPT ![connection] = cls]
                /\ proc' = [proc EXCEPT ![1] =
                       [IdleProc EXCEPT
                           !.pc = "done", !.connection = connection,
                           !.cfg = IF hit THEN DefaultConfig ELSE cfg,
                           !.respTime = respTime, !.code = code,
                           !.cls = cls, !.hit = hit, !.ret = r.ret,
                           !.swapped = r.swapped,
                           !.registered = r.registered,
                           !.psqrObj = r.psqrObj,
                           !.previousId = r.previousId]]
                /\ crashed' = crashed
    /\ calls' = calls + 1
    /\ UNCHANGED dbConn

\* the call, in runs of at most MaxCalls calls
DispatchWithParamsAndClassify(connection, cfg, respTime, code) ==
    /\ calls < MaxCalls
    /\ DispatchCall(connection, cfg, respTime, code)

\* the parameter lists worth telling apart for a call on this connection: the
\* parameters are read only when the connection has no classifier yet
ConfigsFor(connection) ==
    IF classifiers[connection] # 0 THEN {DefaultConfig} ELSE Configs

Next ==
    \E connection \in Connections, respTime \in Elapsed, code \in Codes :
        \E cfg \in ConfigsFor(connection) :
            DispatchWithParamsAndClassify(connection, cfg, respTime, code)

Spec == Init /\ [][Next]_vars


\* ------------------------------------------ calls with arguments at the edge
\* response times and window sizes a caller can pass that the usual callers
\* do not: a negative and a zero response time, a window of zero
EdgeElapsed == {-5, 0, 50}

EdgeConfigs ==
    Configs \cup { [maxPercentileMult |-> F(1), include4xx |-> FALSE,
                    windowSize |-> 0, maxAbsoluteTime |-> -1] }

EdgeConfigsFor(connection) ==
    IF classifiers[connection] # 0 THEN {DefaultConfig} ELSE EdgeConfigs

NextEdge ==
    \E respTime \in EdgeElapsed, code \in Codes :
        \E cfg \in EdgeConfigsFor("a") :
            DispatchWithParamsAndClassify("a", cfg, respTime, code)

SpecEdge == Init /\ [][NextEdge]_vars


\* ------------------------------------- a stream of successful observations
\* calls with the status 200 on the connection "a", from the first on
StreamCall(cfg, respTime) ==
    /\ calls < MaxStream
    /\ DispatchCall("a", cfg, respTime, 200)

StreamElapsed == {10, 20, 50}

\* the parameter lists of the stream: those of Configs and a window of 4
StreamConfigs ==
    Configs \cup { [maxPercentileMult |-> F(1), include4xx |-> TRUE,
                    windowSize |-> 4, maxAbsoluteTime |-> -1] }

StreamConfigsFor(connection) ==
    IF classifiers[connection] # 0 THEN {DefaultConfig} ELSE StreamConfigs

NextStream ==
    \E respTime \in StreamElapsed :
        \E cfg \in StreamConfigsFor("a") : StreamCall(cfg, respTime)

SpecStream == Init /\ [][NextStream]_vars


\* -------------------------------------------- calls after a lost snapshot
\* the psqr row the connection record of the connection names is lost while
\* the connection record stays: the repository is changed from outside the
\* program (the program itself never deletes a current snapshot)
LoseSnapshot(connection) ==
    /\ ~crashed
    /\ SelectCurrentPsqrId(db, connection, Percentile) \in DOMAIN db.psqr
    /\ db' = DeletePsqr(db, SelectCurrentPsqrId(db, connection, Percentile))
    /\ UNCHANGED <<classifiers, heap, dbConn, proc, telemetry, totalRequests,
                   calls, crashed>>

\* a successful observation of the connection "a"
LossObservation(cfg, respTime) ==
    /\ calls < MaxLoss
    /\ DispatchCall("a", cfg, respTime, 200)

NextLoss ==
    \/ LoseSnapshot("a")
    \/ \E respTime \in StreamElapsed :
           \E cfg \in ConfigsFor("a") : LossObservation(cfg, respTime)

SpecLoss == Init /\ [][NextLoss]_vars

\* the step of LossObservation told by its effect: no other action of
\* NextLoss changes calls, and DispatchCall has a next state for any
\* arguments while the process runs
LossObservationStep ==
    /\ ~crashed
    /\ calls < MaxLoss
    /\ calls' = calls + 1

\* the requests of the program keep coming (main.go starts a goroutine for
\* each response): an observation that can be dispatched is dispatched in
\* the end
SpecLossFair == SpecLoss /\ WF_calls(LossObservationStep)


\* ------------------------------------ successes and 4xx responses in a mix
\* the observations <<respTime, code>> of the mix: all below 500
MixObservations == {<<10, 200>>, <<50, 200>>, <<50, 404>>}

\* the parameter lists of the mix: include4xx = false, and a window long
\* enough for the marker positions to move before it closes
MixConfigs ==
    { [maxPercentileMult |-> F(1), include4xx |-> FALSE,
       windowSize |-> 3, maxAbsoluteTime |-> 30],
      [maxPercentileMult |-> F(1), include4xx |-> FALSE,
       windowSize |-> 7, maxAbsoluteTime |-> -1] }

MixConfigsFor(connection) ==
    IF classifiers[connection] # 0 THEN {DefaultConfig} ELSE MixConfigs

\* a call on the connection "a"
MixCall(cfg, respTime, code) ==
    /\ calls < MaxMix
    /\ DispatchCall("a", cfg, respTime, code)

NextMix ==
    \E o \in MixObservations :
        \E cfg \in MixConfigsFor("a") : MixCall(cfg, o[1], o[2])

SpecMix == Init /\ [][NextMix]_vars


\* --------------------------------- the observations of one window followed
\* the parameter list of the run: include4xx = false and a window of 7
WindowConfig ==
    [maxPercentileMult |-> F(1), include4xx |-> FALSE,
     windowSize |-> 7, maxAbsoluteTime |-> -1]

\* DispatchWithParamsAndClassify on the connection "a" as in DispatchCall;
\* beside it proc[2].psqrObj follows a new estimator that is given the
\* observations Classify adds after its last call of SwapPsqr
WindowCall(respTime, code) ==
    /\ ~crashed
    /\ calls < MaxWindow
    /\ LET hit == classifiers["a"] # 0
           rc0 == IF hit THEN heap[1]
                  ELSE NewResponseClassifier("a",
                           WindowConfig.maxPercentileMult,
                           WindowConfig.include4xx,
                           WindowConfig.windowSize,
                           WindowConfig.maxAbsoluteTime)
       IN  \E r \in {Classify(SetResponse(rc0, respTime, code), db)} :
           \E start \in {IF r.swapped THEN NewPsqr(Percentile)
                          ELSE proc[2].psqrObj} :
               /\ heap' = <<r.rc>>
               /\ db' = r.db
               /\ telemetry' = RecordMetrics(r.rc)
               /\ totalRequests' = TotalRequestsAdd(totalRequests, r.rc)
               /\ classifiers' = [classifiers EXCEPT !["a"] = 1]
               /\ proc' = [proc EXCEPT
                      ![1] = [IdleProc EXCEPT
                                 !.pc = "done", !.connection = "a",
                                 !.cfg = IF hit THEN DefaultConfig
                                         ELSE WindowConfig,
                                 !.respTime = respTime, !.code = code,
                                 !.cls = 1, !.hit = hit, !.ret = r.ret,
                                 !.swapped = r.swapped,
                                 !.registered = r.registered,
                                 !.psqrObj = r.psqrObj,
                                 !.previousId = r.previousId],
                      ![2] = [proc[2] EXCEPT
                                 !.pc = "window",
                                 !.psqrObj = IF r.registered
                                             THEN Add(start, F(respTime))
                                             ELSE start]]
    /\ calls' = calls + 1
    /\ UNCHANGED <<dbConn, crashed>>

NextWindow == \E o \in MixObservations : WindowCall(o[1], o[2])

SpecWindow == Init /\ [][NextWindow]_vars


\* ------------------------------------------- calls the repository fails in
\* the repository operations of Classify: the loads of lines 183 and 190,
\* SwapPsqr of line 217, RegisterData of line 227
RepositoryOperations == {"load", "rollover", "upsert"}

\* Classify on rc reaches the operation op
OperationCalled(rc, d, op) ==
    /\ ~IsErrorResponse(rc)
    /\ op = "rollover"
          => WindowFull(rc, getPsqr(d, rc, Percentile).psqrObj)
    /\ op = "upsert" => IsSuccessful(rc)

\* DispatchWithParamsAndClassify when sqlite returns an error (disk full,
\* I/O error, busy beyond the timeout) to the operation op: every such
\* error ends in log.Fatalf, which exits the process. The transaction of
\* the failing operation is not committed; a rollover committed before a
\* failing upsert stays.
DispatchRepositoryFails(connection, cfg, respTime, code, op) ==
    /\ ~crashed
    /\ calls < MaxCalls
    /\ LET hit == classifiers[connection] # 0
           cls == IF hit THEN classifiers[connection] ELSE Len(heap) + 1
           rc0 == IF hit THEN heap[cls]
                  ELSE NewResponseClassifier(connection,
                           cfg.maxPercentileMult, cfg.include4xx,
                           cfg.windowSize, cfg.maxAbsoluteTime)
           rc1 == SetResponse(rc0, respTime, code)
       IN  /\ OperationCalled(rc1, db, op)
           /\ db' = IF op = "upsert"
                         /\ WindowFull(rc1, getPsqr(db, rc1, Percentile).psqrObj)
                     THEN SwapPsqr(db, connection, Percentile).db
                     ELSE db
           /\ proc' = [proc EXCEPT ![1] =
                  [IdleProc EXCEPT
                      !.pc = "fatal", !.connection = connection,
                      !.cfg = IF hit THEN DefaultConfig ELSE cfg,
                      !.respTime = respTime, !.code = code,
                      !.cls = cls, !.hit = hit]]
    /\ crashed' = TRUE
    /\ calls' = calls + 1
    /\ UNCHANGED <<heap, telemetry, totalRequests, classifiers, dbConn>>

NextFail ==
    \E respTime \in Elapsed, code \in Codes :
        \E cfg \in ConfigsFor("a") :
            \/ DispatchWithParamsAndClassify("a", cfg, respTime, code)
            \/ \E op \in RepositoryOperations :
                   DispatchRepositoryFails("a", cfg, respTime, code, op)

SpecFail == Init /\ [][NextFail]_vars


\* --------------------------------------------- calls that run concurrently
\* the connection names of the concurrent runs: the goroutines of interest
\* are those that meet on one name
ConcConnections == {"a"}

\* the observations <<respTime, code>> of the concurrent runs: a success and
\* an error that differ in both fields
ConcObservations == {<<10, 200>>, <<50, 503>>}

\* InitSqlite: dbInstance.SetMaxOpenConns(1).  A statement or a transaction
\* of goroutine p starts only when the pooled connection is free; a
\* transaction keeps it until Commit or Rollback.
ConnAvailable(p) == dbConn = 0

Running(p) == proc[p].pc \notin {"idle", "done"}

Rc(p) == heap[proc[p].cls]

Goto(p, rec) == proc' = [proc EXCEPT ![p] = rec]

\* "go classifiers.DispatchWithParamsAndClassify(...)" in doRequest and
\* RoundTrip; the goroutine takes the first free slot of the model
Go(p, connection, respTime, code) ==
    /\ ~crashed
    /\ calls < MaxCallsConc
    /\ ~Running(p)
    /\ \A q \in Procs : q < p => Running(q)
    /\ Goto(p, [IdleProc EXCEPT !.pc = "lookup", !.connection = connection,
                                !.respTime = respTime, !.code = code])
    /\ calls' = calls + 1
    /\ UNCHANGED <<classifiers, heap, db, dbConn, telemetry, totalRequests,
                   crashed>>

\* "if classifier, ok := rcs.classifiers[connection]; ok"
LookupHit(p) ==
    /\ ~crashed
    /\ proc[p].pc = "lookup"
    /\ classifiers[proc[p].connection] # 0
    /\ Goto(p, [proc[p] EXCEPT !.pc = "setResponse", !.hit = TRUE,
                               !.cls = classifiers[proc[p].connection]])
    /\ UNCHANGED <<classifiers, heap, db, dbConn, telemetry, totalRequests,
                   calls, crashed>>

\* the miss: NewResponseClassifier with the parameters of the call
LookupMiss(p, cfg) ==
    /\ ~crashed
    /\ proc[p].pc = "lookup"
    /\ classifiers[proc[p].connection] = 0
    /\ heap' = Append(heap,
                      NewResponseClassifier(proc[p].connection,
                          cfg.maxPercentileMult, cfg.include4xx,
                          cfg.windowSize, cfg.maxAbsoluteTime))
    /\ Goto(p, [proc[p] EXCEPT !.pc = "setResponse", !.hit = FALSE,
                               !.cfg = cfg, !.cls = Len(heap) + 1])
    /\ UNCHANGED <<classifiers, db, dbConn, telemetry, totalRequests,
                   calls, crashed>>

\* SetResponse: Lock, store, Unlock
SetResponseCall(p) ==
    /\ ~crashed
    /\ proc[p].pc = "setResponse"
    /\ Rc(p).mu = 0
    /\ heap' = [heap EXCEPT ![proc[p].cls] =
                   SetResponse(@, proc[p].respTime, proc[p].code)]
    /\ Goto(p, [proc[p] EXCEPT !.pc = "classify"])
    /\ UNCHANGED <<classifiers, db, dbConn, telemetry, totalRequests,
                   calls, crashed>>

\* Classify, lines 162-179: Lock, and the return on an error response
ClassifyEnter(p) ==
    /\ ~crashed
    /\ proc[p].pc = "classify"
    /\ Rc(p).mu = 0
    /\ IF IsErrorResponse(Rc(p))
       THEN /\ heap' = [heap EXCEPT ![proc[p].cls].currentScore = F(0)]
            /\ Goto(p, [proc[p] EXCEPT !.pc = "record", !.ret = F(0)])
       ELSE /\ heap' = [heap EXCEPT ![proc[p].cls].mu = p]
            /\ Goto(p, [proc[p] EXCEPT !.pc = "getPsqr"])
    /\ UNCHANGED <<classifiers, db, dbConn, telemetry, totalRequests,
                   calls, crashed>>

\* GetPsqrFromConnection, first statement
GetPsqrSelect(p) ==
    /\ ~crashed
    /\ proc[p].pc = "getPsqr"
    /\ ConnAvailable(p)
    /\ LET psqrId == SelectCurrentPsqrId(db, Rc(p).connectionName, Percentile)
           g == getPsqrOf(ZeroRow, Percentile)
       IN  IF psqrId = 0
           THEN Goto(p, [proc[p] EXCEPT !.pc = "score",
                                        !.psqrObj = g.psqrObj,
                                        !.previousId = g.previousId])
           ELSE Goto(p, [proc[p] EXCEPT !.pc = "getPsqrRow",
                                        !.psqrId = psqrId])
    /\ UNCHANGED <<classifiers, heap, db, dbConn, telemetry, totalRequests,
                   calls, crashed>>

\* GetPsqrFromConnection, "return GetPsqr(psqrId)", and the rest of getPsqr
GetPsqrRow(p) ==
    /\ ~crashed
    /\ proc[p].pc = "getPsqrRow"
    /\ ConnAvailable(p)
    /\ LET g == getPsqrOf(GetPsqr(db, proc[p].psqrId), Percentile)
       IN  Goto(p, [proc[p] EXCEPT
                       !.pc = IF g.previousId # NULL THEN "getPrevious"
                              ELSE "score",
                       !.psqrObj = g.psqrObj,
                       !.previousId = g.previousId])
    /\ UNCHANGED <<classifiers, heap, db, dbConn, telemetry, totalRequests,
                   calls, crashed>>

\* getPreviousPsqr
GetPrevious(p) ==
    /\ ~crashed
    /\ proc[p].pc = "getPrevious"
    /\ ConnAvailable(p)
    /\ Goto(p, [proc[p] EXCEPT
                   !.pc = "score",
                   !.previousPsqr = getPreviousPsqr(db, proc[p].previousId)])
    /\ UNCHANGED <<classifiers, heap, db, dbConn, telemetry, totalRequests,
                   calls, crashed>>

\* lines 185-216: the score, the filter, and the test of the window
Score(p) ==
    /\ ~crashed
    /\ proc[p].pc = "score"
    /\ heap' = [heap EXCEPT ![proc[p].cls] =
                   StoreScore(@, RawScore(@, proc[p].psqrObj,
                                          proc[p].previousId,
                                          proc[p].previousPsqr))]
    /\ Goto(p, [proc[p] EXCEPT
                   !.pc = IF WindowFull(Rc(p), proc[p].psqrObj)
                          THEN "swapBegin" ELSE "add",
                   !.previousPsqr = IdleProc.previousPsqr,
                   !.psqrId = 0])
    /\ UNCHANGED <<classifiers, db, dbConn, telemetry, totalRequests,
                   calls, crashed>>

\* SwapPsqr: Begin and GetPsqrFromConnectionTransactional; "return -1" rolls
\* back, and Classify goes on with psqrObj.Reset()
SwapBegin(p) ==
    /\ ~crashed
    /\ proc[p].pc = "swapBegin"
    /\ ConnAvailable(p)
    /\ LET cur == GetPsqrFromConnectionTransactional(db, Rc(p).connectionName,
                                                     Percentile)
       IN  IF cur.perc = F(0)
           THEN /\ Goto(p, [proc[p] EXCEPT !.pc = "add", !.swapped = TRUE,
                                           !.psqrObj = Reset(proc[p].psqrObj)])
                /\ UNCHANGED dbConn
           ELSE /\ Goto(p, [proc[p] EXCEPT !.pc = "swapCreate", !.txCur = cur])
                /\ dbConn' = p
    /\ UNCHANGED <<classifiers, heap, db, telemetry, totalRequests, calls,
                   crashed>>

SwapCreate(p) ==
    /\ ~crashed
    /\ proc[p].pc = "swapCreate"
    /\ LET cur == proc[p].txCur
       IN  db' = CreatePsqrTransactional(db, cur.perc, 0, cur.q, cur.n,
                                         cur.np, cur.dn)
    /\ Goto(p, [proc[p] EXCEPT !.pc = "swapSetNew", !.newId = db'.seq])
    /\ UNCHANGED <<classifiers, heap, dbConn, telemetry, totalRequests,
                   calls, crashed>>

SwapSetNew(p) ==
    /\ ~crashed
    /\ proc[p].pc = "swapSetNew"
    /\ db' = SetNewPsqrTransactional(db, Rc(p).connectionName, proc[p].newId,
                                     proc[p].txCur.perc)
    /\ Goto(p, [proc[p] EXCEPT !.pc = "swapSetPrevious"])
    /\ UNCHANGED <<classifiers, heap, dbConn, telemetry, totalRequests,
                   calls, crashed>>

SwapSetPrevious(p) ==
    /\ ~crashed
    /\ proc[p].pc = "swapSetPrevious"
    /\ db' = SetPreviousPsqrTransactional(db, proc[p].newId, proc[p].txCur.id)
    /\ Goto(p, [proc[p] EXCEPT
                   !.pc = IF proc[p].txCur.previousPsqrId # NULL
                          THEN "swapDelete" ELSE "swapCommit"])
    /\ UNCHANGED <<classifiers, heap, dbConn, telemetry, totalRequests,
                   calls, crashed>>

SwapDelete(p) ==
    /\ ~crashed
    /\ proc[p].pc = "swapDelete"
    /\ db' = DeletePsqr(db, proc[p].txCur.previousPsqrId)
    /\ Goto(p, [proc[p] EXCEPT !.pc = "swapCommit"])
    /\ UNCHANGED <<classifiers, heap, dbConn, telemetry, totalRequests,
                   calls, crashed>>

\* tx.Commit of SwapPsqr, then psqrObj.Reset() in Classify
SwapCommit(p) ==
    /\ ~crashed
    /\ proc[p].pc = "swapCommit"
    /\ dbConn' = 0
    /\ Goto(p, [proc[p] EXCEPT !.pc = "add", !.swapped = TRUE,
                               !.txCur = ZeroRow, !.newId = 0,
                               !.psqrObj = Reset(proc[p].psqrObj)])
    /\ UNCHANGED <<classifiers, heap, db, telemetry, totalRequests, calls,
                   crashed>>

\* lines 224-228: psqrObj.Add for a response below 400
AddObservation(p) ==
    /\ ~crashed
    /\ proc[p].pc = "add"
    /\ IF IsSuccessful(Rc(p))
       THEN Goto(p, [proc[p] EXCEPT
                        !.pc = "registerBegin",
                        !.psqrObj = Add(proc[p].psqrObj,
                                        F(Rc(p).currentResponse.time))])
       ELSE Goto(p, [proc[p] EXCEPT !.pc = "return"])
    /\ UNCHANGED <<classifiers, heap, db, dbConn, telemetry, totalRequests,
                   calls, crashed>>

\* InsertConnectionWithPsqr: Begin and the SELECT of the connection
RegisterBegin(p) ==
    /\ ~crashed
    /\ proc[p].pc = "registerBegin"
    /\ ConnAvailable(p)
    /\ dbConn' = p
    /\ LET psqrId == SelectCurrentPsqrId(db, Rc(p).connectionName,
                                         proc[p].psqrObj.Perc)
       IN  Goto(p, [proc[p] EXCEPT
                       !.pc = IF psqrId # 0 THEN "registerUpdate"
                              ELSE "registerInsertPsqr",
                       !.psqrId = psqrId])
    /\ UNCHANGED <<classifiers, heap, db, telemetry, totalRequests, calls,
                   crashed>>

RegisterUpdate(p) ==
    /\ ~crashed
    /\ proc[p].pc = "registerUpdate"
    /\ db' = UpdatePsqrWithTx(db, proc[p].psqrId, proc[p].psqrObj)
    /\ Goto(p, [proc[p] EXCEPT !.pc = "registerCommit"])
    /\ UNCHANGED <<classifiers, heap, dbConn, telemetry, totalRequests,
                   calls, crashed>>

RegisterInsertPsqr(p) ==
    /\ ~crashed
    /\ proc[p].pc = "registerInsertPsqr"
    /\ LET x == proc[p].psqrObj
       IN  db' = CreatePsqrTransactional(db, x.Perc, x.Count, x.Q, x.N,
                                         x.Np, x.Dn)
    /\ Goto(p, [proc[p] EXCEPT !.pc = "registerInsertConnection",
                               !.newId = db'.seq])
    /\ UNCHANGED <<classifiers, heap, dbConn, telemetry, totalRequests,
                   calls, crashed>>

RegisterInsertConnection(p) ==
    /\ ~crashed
    /\ proc[p].pc = "registerInsertConnection"
    /\ db' = InsertConnection(db, Rc(p).connectionName, proc[p].newId)
    /\ Goto(p, [proc[p] EXCEPT !.pc = "registerCommit"])
    /\ UNCHANGED <<classifiers, heap, dbConn, telemetry, totalRequests,
                   calls, crashed>>

RegisterCommit(p) ==
    /\ ~crashed
    /\ proc[p].pc = "registerCommit"
    /\ dbConn' = 0
    /\ Goto(p, [proc[p] EXCEPT !.pc = "return", !.registered = TRUE,
                               !.psqrId = 0, !.newId = 0])
    /\ UNCHANGED <<classifiers, heap, db, telemetry, totalRequests, calls,
                   crashed>>

\* "return rc.currentScore" and the deferred Unlock
ClassifyReturn(p) ==
    /\ ~crashed
    /\ proc[p].pc = "return"
    /\ heap' = [heap EXCEPT ![proc[p].cls].mu = 0]
    /\ Goto(p, [proc[p] EXCEPT !.pc = "record", !.ret = Rc(p).currentScore])
    /\ UNCHANGED <<classifiers, db, dbConn, telemetry, totalRequests, calls,
                   crashed>>

\* RecordMetrics reads the classifier without its lock
RecordMetricsCall(p) ==
    /\ ~crashed
    /\ proc[p].pc = "record"
    /\ telemetry' = RecordMetrics(Rc(p))
    /\ totalRequests' = TotalRequestsAdd(totalRequests, Rc(p))
    /\ Goto(p, [proc[p] EXCEPT !.pc = IF proc[p].hit THEN "done"
                                      ELSE "insert"])
    /\ UNCHANGED <<classifiers, heap, db, dbConn, calls, crashed>>

\* "rcs.classifiers[connection] = newClassifier"
MapInsert(p) ==
    /\ ~crashed
    /\ proc[p].pc = "insert"
    /\ classifiers' = [classifiers EXCEPT ![proc[p].connection] = proc[p].cls]
    /\ Goto(p, [proc[p] EXCEPT !.pc = "done"])
    /\ UNCHANGED <<heap, db, dbConn, telemetry, totalRequests, calls,
                   crashed>>

\* the map has no lock: when a write of one goroutine meets an access of
\* another, the Go runtime may stop the process ("concurrent map writes",
\* "concurrent map read and map write") or let both through
MapRaceFatal(p, q) ==
    /\ ~crashed
    /\ p # q
    /\ proc[p].pc = "insert"
    /\ proc[q].pc \in {"lookup", "insert"}
    /\ crashed' = TRUE
    /\ UNCHANGED <<classifiers, heap, db, dbConn, proc, telemetry,
                   totalRequests, calls>>

NextConc ==
    \E p \in Procs :
        \/ \E connection \in ConcConnections, o \in ConcObservations :
               Go(p, connection, o[1], o[2])
        \/ LookupHit(p)
        \/ \E cfg \in Configs : LookupMiss(p, cfg)
        \/ SetResponseCall(p)
        \/ ClassifyEnter(p)
        \/ GetPsqrSelect(p)
        \/ GetPsqrRow(p)
        \/ GetPrevious(p)
        \/ Score(p)
        \/ SwapBegin(p)
        \/ SwapCreate(p)
        \/ SwapSetNew(p)
        \/ SwapSetPrevious(p)
        \/ SwapDelete(p)
        \/ SwapCommit(p)
        \/ AddObservation(p)
        \/ RegisterBegin(p)
        \/ RegisterUpdate(p)
        \/ RegisterInsertPsqr(p)
        \/ RegisterInsertConnection(p)
        \/ RegisterCommit(p)
        \/ ClassifyReturn(p)
        \/ RecordMetricsCall(p)
        \/ MapInsert(p)
        \/ \E q \in Procs : MapRaceFatal(p, q)

SpecConc == Init /\ [][NextConc]_vars


\* ------------------------------------------ the repository called directly
RECURSIVE AddAll(_, _)
AddAll(p, vs) ==
    IF vs = <<>> THEN p ELSE AddAll(Add(p, F(Head(vs))), Tail(vs))

\* the estimators handed to the repository: one, two and six observations
\* of the tracked quantile, and one estimator of the median
Snapshots ==
    { AddAll(NewPsqr(Percentile), <<10>>),
      AddAll(NewPsqr(Percentile), <<50, 10>>),
      AddAll(NewPsqr(Percentile), <<10, 50, 20, 40, 30, 60>>),
      AddAll(NewPsqr(<<1, 2>>), <<10>>) }

\* InsertConnectionWithPsqr(connection, x.Perc, x.Count, x.Q.., x.N..,
\* x.Np.., x.Dn..); the SELECT of a column the schema lacks ends in log.Fatalf
RepoInsert(connection, x) ==
    /\ ~crashed
    /\ calls < MaxRepoOps
    /\ IF HasColumn(x.Perc)
       THEN /\ db' = InsertConnectionWithPsqr(db, connection, x)
            /\ UNCHANGED crashed
       ELSE /\ crashed' = TRUE
            /\ UNCHANGED db
    /\ proc' = [proc EXCEPT ![1] =
           [IdleProc EXCEPT !.pc = "inserted", !.connection = connection,
                            !.psqrObj = x]]
    /\ calls' = calls + 1
    /\ UNCHANGED <<classifiers, heap, dbConn, telemetry, totalRequests>>

\* SwapPsqr(connection, 0.95)
RepoSwap(connection) ==
    /\ ~crashed
    /\ calls < MaxRepoOps
    /\ LET r == SwapPsqr(db, connection, Percentile)
       IN  /\ db' = r.db
           /\ proc' = [proc EXCEPT ![1] =
                  [IdleProc EXCEPT !.pc = "swapped",
                                   !.connection = connection,
                                   !.newId = r.ret]]
    /\ calls' = calls + 1
    /\ UNCHANGED <<classifiers, heap, dbConn, telemetry, totalRequests,
                   crashed>>

NextRepo ==
    \E connection \in Connections :
        \/ \E x \in Snapshots : RepoInsert(connection, x)
        \/ RepoSwap(connection)

SpecRepo == Init /\ [][NextRepo]_vars


\* ----------------------------------------------------- the score on its own
\* maxAbsoluteTime of the classifier scored with: three ceilings below the
\* estimate, and -1, which leaves the estimate as the ceiling
ScoreCeilings == {1, 10, 30, -1}

ScoreElapsed == 0 .. MaxElapsed

\* the current snapshot scored against: six observations of 50, no
\* previous snapshot
SteadyEstimator == AddAll(NewPsqr(Percentile), <<50, 50, 50, 50, 50, 50>>)

\* NewResponseClassifier with the ceiling: the classifier of the run, heap[1]
ScoreNew(maxAbsoluteTime) ==
    /\ heap = <<>>
    /\ heap' = <<NewResponseClassifier("a", F(1), TRUE, 2, maxAbsoluteTime)>>
    /\ proc' = [proc EXCEPT ![1].pc = "new", ![1].cls = 1]
    /\ UNCHANGED <<classifiers, db, dbConn, telemetry, totalRequests, calls,
                   crashed>>

\* SetResponse(t, 200) and lines 185-201 of Classify; proc[1] keeps the
\* observation and its score, proc[2] those of the observation before
ScoreObservation(t) ==
    /\ heap # <<>>
    /\ calls < MaxScored
    /\ \E rc \in {SetResponse(heap[1], t, 200)} :
           /\ heap' = <<rc>>
           /\ proc' = [proc EXCEPT
                  ![2] = proc[1],
                  ![1] = [proc[1] EXCEPT
                             !.pc = "scored", !.respTime = t, !.code = 200,
                             !.psqrObj = SteadyEstimator,
                             !.ret = RawScore(rc, SteadyEstimator, NULL,
                                              NewPsqr(Percentile))]]
    /\ calls' = calls + 1
    /\ UNCHANGED <<classifiers, db, dbConn, telemetry, totalRequests,
                   crashed>>

NextScore ==
    \/ \E maxAbsoluteTime \in ScoreCeilings : ScoreNew(maxAbsoluteTime)
    \/ \E t \in ScoreElapsed : ScoreObservation(t)

SpecScore == Init /\ [][NextScore]_vars


\* ---------------------------------------------------- the filter on its own
\* the raw scores pushed
FilterScores == {F(0), <<1, 2>>, F(1)}

\* NewResponseClassifier: the classifier of the run, heap[1]
FilterNew ==
    /\ heap = <<>>
    /\ heap' = <<NewResponseClassifier("a", DefaultConfig.maxPercentileMult,
                                        DefaultConfig.include4xx,
                                        DefaultConfig.windowSize,
                                        DefaultConfig.maxAbsoluteTime)>>
    /\ proc' = [proc EXCEPT ![1].pc = "new", ![1].cls = 1]
    /\ UNCHANGED <<classifiers, db, dbConn, telemetry, totalRequests, calls,
                   crashed>>

\* lines 203-212 of Classify on the raw score x: applyLowPassFilter and
\* the store of its result
FilterPush(x) ==
    /\ heap # <<>>
    /\ calls < MaxPushes
    /\ \E rc \in {StoreScore(heap[1], x)} :
           /\ heap' = <<rc>>
           /\ proc' = [proc EXCEPT ![1].pc = "pushed",
                                   ![1].ret = rc.currentScore]
    /\ calls' = calls + 1
    /\ UNCHANGED <<classifiers, db, dbConn, telemetry, totalRequests,
                   crashed>>

NextFilter ==
    \/ FilterNew
    \/ \E x \in FilterScores : FilterPush(x)

SpecFilter == Init /\ [][NextFilter]_vars


\* ------------------------------------------------- the estimator on its own
\* the quantiles an estimator is made for, and the observations added
PsqrQuantiles == {<<19, 20>>, <<1, 2>>}
PsqrValues == {10, 20, 50}

\* psqr.NewPsqr(q): the estimator of the run, kept in proc[1].psqrObj
PsqrNew(q) ==
    /\ calls = 0
    /\ proc[1].pc = "idle"
    /\ proc' = [proc EXCEPT ![1] = [IdleProc EXCEPT !.pc = "new",
                                                   !.psqrObj = NewPsqr(q)]]
    /\ UNCHANGED <<classifiers, heap, db, dbConn, telemetry, totalRequests,
                   calls, crashed>>

\* p.Add(v); respTime keeps the value added
PsqrAdd(v) ==
    /\ calls < MaxPsqrOps
    /\ proc[1].pc \in {"new", "added", "reset"}
    /\ proc' = [proc EXCEPT ![1].pc = "added", ![1].respTime = v,
                            ![1].psqrObj = Add(@, F(v))]
    /\ calls' = calls + 1
    /\ UNCHANGED <<classifiers, heap, db, dbConn, telemetry, totalRequests,
                   crashed>>

\* p.Reset()
PsqrReset ==
    /\ calls < MaxPsqrOps
    /\ proc[1].pc \in {"new", "added", "reset"}
    /\ proc' = [proc EXCEPT ![1].pc = "reset", ![1].psqrObj = Reset(@)]
    /\ calls' = calls + 1
    /\ UNCHANGED <<classifiers, heap, db, dbConn, telemetry, totalRequests,
                   crashed>>

NextPsqr ==
    \/ \E q \in PsqrQuantiles : PsqrNew(q)
    \/ \E v \in PsqrValues : PsqrAdd(v)
    \/ PsqrReset

SpecPsqr == Init /\ [][NextPsqr]_vars

\* the values added with one and the same value: the constant is drawn when
\* the estimator is made and kept in respTime
ConstValues == -2 .. 10

ConstNew(q, c) ==
    /\ calls = 0
    /\ proc[1].pc = "idle"
    /\ proc' = [proc EXCEPT ![1] = [IdleProc EXCEPT !.pc = "new",
                                                   !.respTime = c,
                                                   !.psqrObj = NewPsqr(q)]]
    /\ UNCHANGED <<classifiers, heap, db, dbConn, telemetry, totalRequests,
                   calls, crashed>>

ConstAdd ==
    /\ calls < MaxConstAdds
    /\ proc[1].pc \in {"new", "added"}
    /\ proc' = [proc EXCEPT ![1].pc = "added",
                            ![1].psqrObj = Add(@, F(proc[1].respTime))]
    /\ calls' = calls + 1
    /\ UNCHANGED <<classifiers, heap, db, dbConn, telemetry, totalRequests,
                   crashed>>

NextConst ==
    \/ \E q \in PsqrQuantiles, c \in ConstValues : ConstNew(q, c)
    \/ ConstAdd

SpecConst == Init /\ [][NextConst]_vars


\* ---------------------------------------------------------------- properties
\* goroutine p is between the return of its SetResponse and the return of
\* its Classify
InClassify(p) ==
    proc[p].pc \in {"classify", "getPsqr", "getPsqrRow", "getPrevious",
                    "score", "swapBegin", "swapCreate", "swapSetNew",
                    "swapSetPrevious", "swapDelete", "swapCommit", "add",
                    "registerBegin", "registerUpdate", "registerInsertPsqr",
                    "registerInsertConnection", "registerCommit", "return"}

\* goroutine p has run the load of getPsqr and not yet committed the upsert
\* of RegisterData
InLoadToUpsert(p) ==
    proc[p].pc \in {"getPsqrRow", "getPrevious", "score", "swapBegin",
                    "swapCreate", "swapSetNew", "swapSetPrevious",
                    "swapDelete", "swapCommit", "add", "registerBegin",
                    "registerUpdate", "registerInsertPsqr",
                    "registerInsertConnection", "registerCommit"}

\* the classifier objects created for a connection name
Instances(connection) ==
    {i \in DOMAIN heap : heap[i].connectionName = connection}

\* C1: from the return of its SetResponse to the return of its Classify, a
\* call finds in the classifier the observation it stored itself: no other
\* call on the same connection name stores its observation in between, so
\* Classify scores the observation of its own call.
ClassifyScoresOwnObservation ==
    \A p \in Procs :
        InClassify(p) =>
            Rc(p).currentResponse = NewResponse(proc[p].respTime, proc[p].code)

\* C2: for every connection name at most one classifier is ever created, and
\* every call that has passed the lookup works on the classifier the registry
\* holds for its name (so the registry never puts another classifier in the
\* place of one it holds).
RegistryGetOrCreateAtomic ==
    /\ \A c \in Connections : Cardinality(Instances(c)) <= 1
    /\ \A p \in Procs :
           (proc[p].pc \notin {"idle", "lookup"}
               /\ classifiers[proc[p].connection] # 0)
               => proc[p].cls = classifiers[proc[p].connection]

\* every call so far was a success on the one connection name, has returned,
\* and no call reached the end of a window
AllSucceededNoRollover(connection) ==
    /\ calls > 0
    /\ \A p \in Procs : ~Running(p)
    /\ totalRequests[<<connection, 200>>] = CounterIncrement * calls
    /\ \A i \in DOMAIN heap : calls < heap[i].windowSize

\* C3: no two Classify executions for one connection name are between the
\* load of getPsqr and the upsert of RegisterData at the same time; and when
\* N successful calls on one connection, started on an empty repository,
\* have all returned (N below the window size), the persisted estimator of
\* the connection counts N observations.
OneClassifyPerConnection ==
    /\ \A p, q \in Procs :
           (p # q /\ InLoadToUpsert(p) /\ InLoadToUpsert(q))
               => proc[p].connection # proc[q].connection
    /\ \A c \in ConcConnections :
           AllSucceededNoRollover(c)
               => GetPsqrFromConnection(db, c, Percentile).count = calls


\* ------------------------------------------------ properties of single calls
\* the step is a whole call of DispatchWithParamsAndClassify, left in proc[1]
CallStep == calls' = calls + 1 /\ proc'[1].pc = "done"

\* the classifier the call of this step works on, as the call found it
CalledClassifier ==
    IF proc'[1].hit THEN heap[proc'[1].cls]
    ELSE NewResponseClassifier(proc'[1].connection,
                               proc'[1].cfg.maxPercentileMult,
                               proc'[1].cfg.include4xx,
                               proc'[1].cfg.windowSize,
                               proc'[1].cfg.maxAbsoluteTime)

Current(d, connection) == GetPsqrFromConnection(d, connection, Percentile)

\* no response of 400 or above was recorded for the connection
NoErrorRecorded(connection) ==
    \A code \in Codes : code >= 400 => totalRequests[<<connection, code>>] = 0

\* C4: a successful observation (status below 400) on a connection whose
\* current snapshot has no previous snapshot and a count of at most 5
\* (none at all for the first observation) returns the score 1.0 when no
\* error was observed on the connection before.
ColdStartScoresOne ==
    [][(/\ CallStep
        /\ proc'[1].code < 400
        /\ Current(db, proc'[1].connection).previousPsqrId = NULL
        /\ Current(db, proc'[1].connection).count <= 5
        /\ NoErrorRecorded(proc'[1].connection))
          => proc'[1].ret = F(1)]_vars

\* C5: a call whose status is 500 or above, or 400 or above on a classifier
\* with include4xx, returns 0.0 and leaves the database as it was.
ErrorShortCircuit ==
    [][(/\ CallStep
        /\ \/ proc'[1].code >= 500
           \/ proc'[1].code >= 400 /\ CalledClassifier.include4xx)
          => (proc'[1].ret = F(0) /\ db' = db)]_vars

\* C5, both cases met on a connection that has a persisted snapshot
ErrorShortCircuitWitness ==
    /\ proc[1].pc = "done"
    /\ proc[1].code = 404
    /\ heap[proc[1].cls].include4xx
    /\ proc[1].ret = F(0)
    /\ Current(db, proc[1].connection).count > 0
    /\ totalRequests[<<proc[1].connection, 503>>] > 0

OnlySuccesses(connection, n) ==
    /\ totalRequests[<<connection, 200>>] = CounterIncrement * n
    /\ NoErrorRecorded(connection)

\* C7: when a connection (window size at least 2) has seen windowSize - 1
\* observations, all successful, on a database that was empty at the start,
\* the next successful observation leaves a current snapshot with count 1
\* whose previousPsqrId is the id of the snapshot that was current before it.
RolloverLinksClosedSnapshot ==
    [][(/\ CallStep
        /\ proc'[1].code < 400
        /\ proc'[1].hit
        /\ CalledClassifier.windowSize >= 2
        /\ OnlySuccesses(proc'[1].connection,
                         CalledClassifier.windowSize - 1))
          => /\ Current(db, proc'[1].connection).id # NULL
             /\ Current(db', proc'[1].connection).id
                    # Current(db, proc'[1].connection).id
             /\ Current(db', proc'[1].connection).previousPsqrId
                    = Current(db, proc'[1].connection).id
             /\ Current(db', proc'[1].connection).count = 1]_vars

\* C7: the third of three successful observations on a classifier of window
\* size 3 has rolled the window: the closed snapshot holds two observations
RolloverWitness ==
    /\ proc[1].pc = "done"
    /\ proc[1].swapped
    /\ proc[1].registered
    /\ heap[proc[1].cls].windowSize = 3
    /\ OnlySuccesses(proc[1].connection, 3)
    /\ Current(db, proc[1].connection).count = 1
    /\ GetPsqr(db, Current(db, proc[1].connection).previousPsqrId).count = 2

\* the snapshots of a connection: its current one and the one the current
\* one names as previous, when that row exists
LiveSnapshots(d, connection) ==
    LET cur == Current(d, connection)
    IN  {id \in DOMAIN d.psqr : id = cur.id \/ id = cur.previousPsqrId}

\* C8: every snapshot in the database is the current snapshot of a
\* connection or the previous snapshot of a current one, so that a
\* connection has at most two; and the previous snapshot of a current one
\* names no snapshot that still exists (chain depth at most 1).
AtMostTwoSnapshots ==
    /\ \A id \in DOMAIN db.psqr :
           \E c \in Connections : id \in LiveSnapshots(db, c)
    /\ \A c \in Connections :
           /\ Cardinality(LiveSnapshots(db, c)) <= 2
           /\ \A id \in LiveSnapshots(db, c) \ {Current(db, c).id} :
                  db.psqr[id].previousPsqrId \notin DOMAIN db.psqr

\* C8: a second rollover has deleted the oldest snapshot of a connection:
\* the previous snapshot still names it
SecondRolloverWitness ==
    \E c \in Connections :
        LET cur == Current(db, c)
        IN  /\ cur.previousPsqrId \in DOMAIN db.psqr
            /\ db.psqr[cur.previousPsqrId].previousPsqrId # NULL
            /\ db.psqr[cur.previousPsqrId].previousPsqrId \notin DOMAIN db.psqr
            /\ Cardinality(DOMAIN db.psqr) >= 3


\* ------------------------------------------------ properties of the readers
\* goroutine p runs a statement of GetPsqrFromConnection in this step
ReadsConnection(p) == proc[p].pc = "getPsqr" /\ proc'[p].pc # "getPsqr"

ReadsRow(p) == proc[p].pc = "getPsqrRow" /\ proc'[p].pc # "getPsqrRow"

\* no rollover is applied in part: every snapshot is the current snapshot of
\* a connection or the previous one of a current snapshot (no copy that is
\* not linked yet, no old previous snapshot that is not deleted yet), the
\* connection names a snapshot that exists, and a current snapshot with
\* count 0, the copy a rollover makes, names its previous snapshot
NoPartialSwap(d) ==
    /\ \A id \in DOMAIN d.psqr :
           \E c \in Connections : id \in LiveSnapshots(d, c)
    /\ \A c \in Connections :
           LET id == SelectCurrentPsqrId(d, c, Percentile)
           IN  id # 0 =>
                   /\ id \in DOMAIN d.psqr
                   /\ d.psqr[id].count = 0 =>
                          d.psqr[id].previousPsqrId \in DOMAIN d.psqr

\* C9: each statement of a GetPsqrFromConnection runs on a database in which
\* no rollover is applied in part, and the snapshot it returns is one that
\* exists: the current snapshot of the connection (the new one, or the old
\* one when no rollover came in between) or the previous snapshot of the
\* current one (the old one, when a rollover came in between).
SwapAtomicForReaders ==
    [][\A p \in Procs :
          /\ (ReadsConnection(p) \/ ReadsRow(p)) => NoPartialSwap(db)
          /\ ReadsRow(p) =>
                 /\ proc[p].psqrId \in DOMAIN db.psqr
                 /\ proc[p].psqrId
                        \in LiveSnapshots(db, proc[p].connection)]_vars

\* ------------------------------------- properties of the repository alone
\* the step is a call of InsertConnectionWithPsqr, its arguments in proc[1]
InsertStep == calls' = calls + 1 /\ proc'[1].pc = "inserted"

\* GetPsqrFromConnection after the call returns the fields of the estimator
\* handed in; a connection that had a snapshot keeps its id and its
\* previousPsqrId, a connection that had none is linked to a new snapshot
RoundTrip ==
    LET x == proc'[1].psqrObj
        old == GetPsqrFromConnection(db, proc'[1].connection, x.Perc)
        got == GetPsqrFromConnection(db', proc'[1].connection, x.Perc)
    IN  /\ ~crashed'
        /\ got.id # 0
        /\ got.perc = x.Perc
        /\ got.count = x.Count
        /\ got.q = x.Q
        /\ got.n = x.N
        /\ got.np = x.Np
        /\ got.dn = x.Dn
        /\ old.id # 0 =>
               (got.id = old.id /\ got.previousPsqrId = old.previousPsqrId)
        /\ old.id = 0 => got.id \notin DOMAIN db.psqr

\* C10 as the specification states it: the round trip holds for every
\* connection and every estimator, whatever its quantile.
RoundTripEveryQuantile == [][InsertStep => RoundTrip]_vars

\* C10 for the quantile the schema has a column for (0.95): the round trip
\* holds for every connection and every estimator of that quantile, for a
\* connection without a record and for one with a record.
RoundTripTrackedQuantile ==
    [][(InsertStep /\ HasColumn(proc'[1].psqrObj.Perc)) => RoundTrip]_vars

\* C10: an estimator of six observations was written over the current
\* snapshot of a connection whose window had been rolled
RoundTripWitness ==
    /\ proc[1].pc = "inserted"
    /\ ~crashed
    /\ HasColumn(proc[1].psqrObj.Perc)
    /\ proc[1].psqrObj.Count = 6
    /\ Current(db, proc[1].connection).count = 6
    /\ Current(db, proc[1].connection).previousPsqrId \in DOMAIN db.psqr


\* --------------------------------------------- properties of the estimator
Sorted(q) == \A i \in 0 .. 3 : FLe(q[i], q[i + 1])

\* C11 as the specification states it: after every Add the marker heights
\* are sorted, q[0] <= q[1] <= q[2] <= q[3] <= q[4].
SortedAfterEveryAdd ==
    proc[1].pc = "added" => Sorted(proc[1].psqrObj.Q)

\* C11 for the estimator past its first five observations: after every Add
\* that leaves Count at 5 or more, on an estimator reached by any sequence
\* of Add and Reset, the marker heights are sorted.
SortedAfterAddFromFifth ==
    (proc[1].pc = "added" /\ proc[1].psqrObj.Count >= 5)
        => Sorted(proc[1].psqrObj.Q)

\* C11: an Add in the steady state has moved a marker to a height that was
\* never observed
SortedWitness ==
    /\ proc[1].pc = "added"
    /\ proc[1].psqrObj.Count >= 6
    /\ \E i \in 1 .. 3 :
           \A v \in PsqrValues : proc[1].psqrObj.Q[i] # F(v)

\* C12: a call of Reset leaves Count = 0, N = (1,2,3,4,5),
\* Dn = (0, p/2, p, (1+p)/2, 1) and Np[i] = 4*Dn[i] + 1, and leaves Perc and
\* the five marker heights Q as they were.
ResetPostcondition ==
    [][(calls' = calls + 1 /\ proc'[1].pc = "reset")
          => LET old == proc[1].psqrObj
                 new == proc'[1].psqrObj
                 p == old.Perc
             IN  /\ new.Count = 0
                 /\ new.N = [i \in Idx |-> i + 1]
                 /\ new.Dn[0] = F(0)
                 /\ new.Dn[1] = FDiv(p, F(2))
                 /\ new.Dn[2] = p
                 /\ new.Dn[3] = FDiv(FAdd(F(1), p), F(2))
                 /\ new.Dn[4] = F(1)
                 /\ \A i \in Idx :
                        new.Np[i] = FAdd(FMul(F(4), new.Dn[i]), F(1))
                 /\ new.Perc = p
                 /\ new.Q = old.Q]_vars

\* C12: a Reset of an estimator in the steady state, whose markers and
\* positions have moved
ResetWitness ==
    /\ proc[1].pc = "reset"
    /\ proc[1].psqrObj.Count = 0
    /\ proc[1].psqrObj.Q[0] # proc[1].psqrObj.Q[4]
    /\ proc[1].psqrObj.Q[2] # F(0)
    /\ calls >= 7

\* C13: on an estimator made fresh and fed one value c only, Get() is c
\* after every Add from the fifth on.
ConstantStreamExact ==
    (proc[1].pc = "added" /\ proc[1].psqrObj.Count >= 5)
        => Get(proc[1].psqrObj) = F(proc[1].respTime)

\* C13: twelve Adds of a negative constant
ConstantStreamWitness ==
    /\ proc[1].pc = "added"
    /\ proc[1].psqrObj.Count = 12
    /\ proc[1].respTime < 0
    /\ proc[1].psqrObj.N[4] = 12

\* ------------------------------------------------- properties of the score
\* the current snapshot as the call of this step loads it at line 183
CallLoaded == getPsqr(db, CalledClassifier, Percentile)

\* the previous snapshot as the call of this step loads it at line 190
CallPrevious ==
    IF CallLoaded.previousId # NULL
    THEN getPreviousPsqr(db, CallLoaded.previousId)
    ELSE NewPsqr(Percentile)

\* the test of line 198 for the call of this step
ScoringActive == CallLoaded.previousId # NULL \/ CallLoaded.psqrObj.Count > 5

\* upperLimit of line 199 for the call of this step
CallUpperLimit ==
    MathMin(FMul(CalledClassifier.maxPercentileMult,
                 BlendedP90(CalledClassifier, CallLoaded.psqrObj,
                            CallLoaded.previousId, CallPrevious)),
            F(CalledClassifier.maxAbsoluteTime))

\* the score the call of this step handed to applyLowPassFilter: the last
\* entry of the buffer
CallRawScore ==
    LET buf == heap'[proc'[1].cls].lastFiveScores
    IN  buf[Len(buf)]

\* the call of this step is not cut short as an error response
CallScored ==
    /\ CallStep
    /\ ~(proc'[1].code >= 500)
    /\ ~(proc'[1].code >= 400 /\ CalledClassifier.include4xx)

\* C14: when scoring is active (a previous snapshot exists or the current
\* count is above 5), an observation with elapsed = 0 has the raw score 1.0
\* and an observation with elapsed = upper has the raw score 0.5, whatever
\* the estimate.
ScoreMappingEndpoints ==
    [][(CallScored /\ ScoringActive)
          => /\ proc'[1].respTime = 0 => CallRawScore = F(1)
             /\ F(proc'[1].respTime) = CallUpperLimit
                    => CallRawScore = <<1, 2>>]_vars

\* C15: the score every classifier holds as its current score, which is the
\* score its last Classify returned, is a number in [0, 1].
ScoreInUnitInterval ==
    \A i \in DOMAIN heap :
        /\ IsFinite(heap[i].currentScore)
        /\ FLe(F(0), heap[i].currentScore)
        /\ FLe(heap[i].currentScore, F(1))

\* ------------------------------------------ properties of the configuration
\* the four configured fields of a classifier
ConfigOf(rc) ==
    [maxPercentileMult |-> rc.maxPercentileMult,
     include4xx |-> rc.include4xx,
     windowSize |-> rc.windowSize,
     maxAbsoluteTime |-> rc.maxAbsoluteTime]

\* C16: once the registry holds a classifier for a connection name, the
\* name keeps a classifier whose maxPercentileMult, maxAbsoluteTime,
\* include4xx and windowSize are those of the first insert, whatever
\* configuration later dispatches pass.
FirstWriterWins ==
    [][\A c \in Connections :
           classifiers[c] # 0
               => /\ classifiers'[c] # 0
                  /\ ConfigOf(heap'[classifiers'[c]])
                        = ConfigOf(heap[classifiers[c]])]_vars

\* -------------------------------------------------- properties of telemetry
RECURSIVE SumCounter(_, _)
SumCounter(counter, keys) ==
    IF keys = {} THEN 0
    ELSE LET k == CHOOSE x \in keys : TRUE
         IN  counter[k] + SumCounter(counter, keys \ {k})

\* http_total_requests summed over its attribute sets
CounterTotal == SumCounter(totalRequests, DOMAIN totalRequests)

\* C17: every completed call adds exactly 1 to http_total_requests, so the
\* counter summed over all attribute sets is the number of completed calls.
TotalRequestsCountsCalls == CounterTotal = calls

\* C18: the record a call emits carries the response time and status code
\* of the call's own observation and the score Classify returned for that
\* observation, under every interleaving of calls on one connection.
TelemetryOfOwnObservation ==
    [][\A p \in Procs :
           (proc[p].pc = "record" /\ proc'[p].pc # "record")
               => /\ telemetry'.http_response_time = proc[p].respTime
                  /\ telemetry'.status_code = proc[p].code
                  /\ telemetry'.http_request_score = proc[p].ret]_vars

\* ------------------------------------------- properties of edge arguments
\* the step is a call of DispatchWithParamsAndClassify that reached the
\* window arithmetic of Classify, to its end or to the panic
ClassifyRanStep ==
    /\ calls' = calls + 1
    /\ proc'[1].pc \in {"done", "panic"}
    /\ ~(proc'[1].code >= 500)
    /\ ~(proc'[1].code >= 400 /\ CalledClassifier.include4xx)

\* C19: a window size of 0 or below is rejected at construction: no
\* classifier has one, no Classify call runs with one, and no call ends in
\* the division by zero.
WindowSizeValidated ==
    [][/\ \A i \in DOMAIN heap' : heap'[i].windowSize > 0
       /\ ClassifyRanStep => CalledClassifier.windowSize > 0
       /\ ~crashed']_vars

\* C20: a call with a negative response time returns the score and leaves
\* the database that the same call with the response time 0 would, and the
\* estimator it persists holds no negative observation.
NegativeElapsedClamped ==
    [][(CallStep /\ proc'[1].respTime < 0)
          => \E r \in {Classify(SetResponse(CalledClassifier, 0,
                                            proc'[1].code), db)} :
                 /\ proc'[1].ret = r.ret
                 /\ db' = r.db
                 /\ \A i \in Idx : FGe(proc'[1].psqrObj.Q[i], F(0))]_vars

\* ------------------------------------- properties of repository failures
\* C21: a repository operation that fails during Classify leaves the
\* process running, so that later observations can be classified (the
\* failure being handed to the caller as an error outcome).
RepositoryFailureSurvived == proc[1].pc = "fatal" => ~crashed

\* ---------------------------------------------- properties of broken chains
\* goroutine p takes the step that computes the score, having found no row
\* for the previousPsqrId of the current snapshot (getPreviousPsqr then
\* returns an estimator of quantile 0)
ScoresOnBrokenChain(p) ==
    /\ proc[p].pc = "score"
    /\ proc'[p].pc # "score"
    /\ proc[p].previousId # NULL
    /\ proc[p].previousPsqr.Perc = F(0)

\* C22: when the previous snapshot named by the current one is gone,
\* Classify scores as if there were no previous snapshot: the raw score is
\* 1.0 while the count is at most 5.
BrokenChainIsColdStart ==
    [][\A p \in Procs :
           (ScoresOnBrokenChain(p) /\ proc[p].psqrObj.Count <= 5)
               => LET buf == heap'[proc[p].cls].lastFiveScores
                  IN  buf[Len(buf)] = F(1)]_vars

\* ------------------------------------------------ properties of the filter
\* the scores pushed since construction that the buffer still holds: its
\* last entries, as many as there were pushes, five at most
PushedScores ==
    LET buf == heap[1].lastFiveScores
        k == IF calls < 5 THEN calls ELSE 5
    IN  [i \in 1 .. k |-> buf[Len(buf) - k + i]]

\* C23: when every score pushed so far is x (five or more of them, or
\* fewer than five since construction), the filter returns x.
SmootherConstantStream ==
    \A x \in FilterScores :
        (/\ proc[1].pc = "pushed"
         /\ \A i \in DOMAIN PushedScores : PushedScores[i] = x)
            => proc[1].ret = x

\* the weights of the draft filter by buffer position
Weights == <<<<1, 10>>, <<3, 20>>, <<1, 5>>, <<3, 20>>, <<1, 10>>>>

RECURSIVE WeightedSum(_, _)
WeightedSum(buf, i) ==
    IF i > Len(buf) THEN F(0)
    ELSE FAdd(FMul(buf[i], Weights[i]), WeightedSum(buf, i + 1))

RECURSIVE TotalWeight(_, _)
TotalWeight(buf, i) ==
    IF i > Len(buf) THEN F(0) ELSE FAdd(Weights[i], TotalWeight(buf, i + 1))

\* C24: the filter returns the mean of the scores it holds weighted by
\* (0.10, 0.15, 0.20, 0.15, 0.10) by buffer position and divided by the sum
\* of the weights applied.
SmootherIsWeightedMean ==
    proc[1].pc = "pushed"
        => proc[1].ret = FDiv(WeightedSum(PushedScores, 1),
                              TotalWeight(PushedScores, 1))

\* C25: a call cut short as an error response pushes 0.0 through the
\* filter: the buffer of the classifier takes 0.0 as its newest entry.
ErrorPushedThroughSmoother ==
    [][(/\ CallStep
        /\ \/ proc'[1].code >= 500
           \/ proc'[1].code >= 400 /\ CalledClassifier.include4xx)
          => heap'[proc'[1].cls].lastFiveScores
                 = PushScore(CalledClassifier.lastFiveScores, F(0))]_vars

\* ------------------------------------------------ properties of the window
\* the number, on its connection, of the observation the call of this step
\* classifies, when all calls recorded before had the status 200
ObservationNumber ==
    (totalRequests[<<proc'[1].connection, 200>>] \div CounterIncrement) + 1

\* the snapshot the current snapshot of the connection names as previous
Closed(d, connection) == GetPsqr(d, Current(d, connection).previousPsqrId)

\* C26: on a stream of successful observations from an empty repository
\* the window rolls exactly while classifying the observations whose number
\* is a multiple of windowSize, and the snapshot a rollover closes has
\* count = windowSize.
WindowHoldsWindowSize ==
    [][(/\ CallStep
        /\ proc'[1].code = 200
        /\ OnlySuccesses(proc'[1].connection, ObservationNumber - 1))
          => /\ proc'[1].swapped
                    <=> ObservationNumber % CalledClassifier.windowSize = 0
             /\ proc'[1].swapped
                    => Closed(db', proc'[1].connection).count
                           = CalledClassifier.windowSize]_vars

\* ------------------------------------------------- properties of the blend
\* w2 of line 193 for a snapshot of the given count
BlendWeight(count, windowSize) ==
    FDiv(F((count % windowSize) + 1), F(windowSize))

\* C27: for a successful observation scored against a previous snapshot,
\* w2 = (count mod windowSize + 1) / windowSize is in (0, 1], w1 = 1 - w2
\* is in [0, 1), the blended estimate lies between the previous and the
\* current estimate, w2 is larger for the next observation of the same
\* window, and w2 is exactly 1 on the observation that is scored last
\* before the window rolls.
BlendWeightsRamp ==
    [][(CallStep /\ proc'[1].code < 400 /\ CallLoaded.previousId # NULL)
          => LET ws == CalledClassifier.windowSize
                 w2 == BlendWeight(CallLoaded.psqrObj.Count, ws)
                 w1 == FSub(F(1), w2)
                 pPrev == Get(CallPrevious)
                 pNow == Get(CallLoaded.psqrObj)
                 p == BlendedP90(CalledClassifier, CallLoaded.psqrObj,
                                 CallLoaded.previousId, CallPrevious)
                 next == Current(db', proc'[1].connection).count
             IN  /\ FLt(F(0), w2) /\ FLe(w2, F(1))
                 /\ FLe(F(0), w1) /\ FLt(w1, F(1))
                 /\ FLe(MathMin(pPrev, pNow), p)
                 /\ FLe(p, MathMax(pPrev, pNow))
                 /\ ~proc'[1].swapped => FLt(w2, BlendWeight(next, ws))
                 /\ proc'[1].swapped <=> w2 = F(1)]_vars

\* C27: in a window of size 4 the observation scored with w2 = 3/4, whose
\* two estimates differ, is followed by the one that rolls the window
BlendWeightsWitness ==
    /\ proc[1].pc = "done"
    /\ heap[proc[1].cls].windowSize = 4
    /\ proc[1].previousId # NULL
    /\ ~proc[1].swapped
    /\ Current(db, "a").count = 3
    /\ Closed(db, "a").q[2] # Current(db, "a").q[2]

\* ------------------------------------- properties of the order in Classify
\* the raw score of an observation t against the ceiling upper
ScoreAgainst(upper, t) ==
    FAdd(FMul(FDiv(FSub(upper, t), MathMax(upper, t)), <<1, 2>>), <<1, 2>>)

\* C28: the score a successful call returns is the mean of the buffer
\* after the push of the raw score computed from the snapshots as the
\* repository held them before the call: the Add, the upsert and the
\* rollover of the call have no part in it.
ScoreFromStateBeforeAdd ==
    [][(CallStep /\ proc'[1].code < 400)
          => \A raw \in {IF ScoringActive
                          THEN ScoreAgainst(CallUpperLimit,
                                            F(proc'[1].respTime))
                          ELSE F(1)} :
             \A buf \in {PushScore(CalledClassifier.lastFiveScores, raw)} :
                 /\ heap'[proc'[1].cls].lastFiveScores = buf
                 /\ proc'[1].ret = FDiv(SumScores(buf, 1), F(Len(buf)))]_vars

\* C28: the third observation of a window, scored against a previous
\* snapshot, has moved the estimate of the current snapshot to its own
\* value, away from the estimate it was scored against
ScoreFromStateBeforeAddWitness ==
    /\ proc[1].pc = "done"
    /\ proc[1].registered
    /\ proc[1].previousId # NULL
    /\ ~proc[1].swapped
    /\ Current(db, "a").count = 3
    /\ Current(db, "a").q[2] = F(proc[1].respTime)
    /\ Closed(db, "a").q[2] # F(proc[1].respTime)

\* ------------------------------------- properties of the marker positions
\* C29: an estimator made by NewPsqr and driven by Add and Reset has
\* N[0] = 1 in every state, and N[4] = Count in every state with
\* Count >= 5.
ExtremePositions ==
    /\ proc[1].psqrObj.N[0] = 1
    /\ proc[1].psqrObj.Count >= 5
           => proc[1].psqrObj.N[4] = proc[1].psqrObj.Count

\* C29: an estimator that was reset earlier, at its sixth observation
\* since, which is a new minimum and has moved the second marker
ExtremePositionsWitness ==
    /\ proc[1].pc = "added"
    /\ calls = MaxPsqrOps
    /\ proc[1].psqrObj.Count = 6
    /\ proc[1].psqrObj.N[4] = 6
    /\ proc[1].psqrObj.Q[0] = F(proc[1].respTime)
    /\ proc[1].psqrObj.N[1] = 3

StrictlyIncreasing(n) == \A i \in 0 .. 3 : n[i] < n[i + 1]

\* the test of line 761 for marker i
AdjustmentTaken(p, i) ==
    LET d == FSub(p.Np[i], F(p.N[i]))
    IN  \/ FGe(d, F(1)) /\ p.N[i + 1] - p.N[i] > 1
        \/ FLe(d, F(-1)) /\ p.N[i - 1] - p.N[i] < -1

\* the denominators of parabolic and linear for marker i are not zero
Denominators(p, i) ==
    LET s == sign(FSub(p.Np[i], F(p.N[i])))
    IN  /\ p.N[i + 1] - p.N[i - 1] # 0
        /\ p.N[i + 1] - p.N[i] # 0
        /\ p.N[i] - p.N[i - 1] # 0
        /\ p.N[i + s] - p.N[i] # 0

\* C30: every Add and Reset leaves the positions strictly increasing, and
\* in an Add from the sixth observation on, each of the three markers that
\* is adjusted finds the denominators of parabolic and linear non-zero.
NeverDividesByZero ==
    [][/\ StrictlyIncreasing(proc'[1].psqrObj.N)
       /\ (/\ calls' = calls + 1
           /\ proc'[1].pc = "added"
           /\ proc[1].psqrObj.Count >= 5)
              => \A a0 \in {AddPositions(proc[1].psqrObj,
                                         F(proc'[1].respTime))} :
                 \A a1 \in {AdjustMarker(a0, 1)} :
                 \A a2 \in {AdjustMarker(a1, 2)} :
                     /\ AdjustmentTaken(a0, 1) => Denominators(a0, 1)
                     /\ AdjustmentTaken(a1, 2) => Denominators(a1, 2)
                     /\ AdjustmentTaken(a2, 3) => Denominators(a2, 3)]_vars

\* C30: an Add that moved the middle marker, between neighbours one
\* position away on each side
NeverDividesByZeroWitness ==
    /\ proc[1].pc = "added"
    /\ proc[1].psqrObj.Count >= 7
    /\ proc[1].psqrObj.N[2] = proc[1].psqrObj.N[1] + 1
    /\ proc[1].psqrObj.N[3] = proc[1].psqrObj.N[2] + 1
    /\ proc[1].psqrObj.N[2] > 3

\* ------------------------------------------ properties of the score mapping
\* the ceiling the classifier of the run scores against
ScoreCeiling ==
    MathMin(FMul(heap[1].maxPercentileMult, Get(SteadyEstimator)),
            F(heap[1].maxAbsoluteTime))

\* C31: against one ceiling above 0, of two observations with non-negative
\* response times the one with the larger time has no larger raw score,
\* and every raw score is in (0, 1].
RawScoreMonotone ==
    (proc[1].pc = "scored" /\ FGt(ScoreCeiling, F(0)))
        => /\ FLt(F(0), proc[1].ret)
           /\ FLe(proc[1].ret, F(1))
           /\ (proc[2].pc = "scored"
                   /\ proc[2].respTime <= proc[1].respTime)
                  => FGe(proc[2].ret, proc[1].ret)
           /\ (proc[2].pc = "scored"
                   /\ proc[1].respTime <= proc[2].respTime)
                  => FGe(proc[1].ret, proc[2].ret)

\* C31: an observation below the ceiling followed by one above it, with
\* scores on the two sides of 0.5
RawScoreMonotoneWitness ==
    /\ proc[1].pc = "scored"
    /\ proc[2].pc = "scored"
    /\ ScoreCeiling = F(30)
    /\ 0 < proc[2].respTime
    /\ proc[2].respTime < 30
    /\ proc[1].respTime > 30
    /\ FLt(proc[1].ret, <<1, 2>>)
    /\ FLt(<<1, 2>>, proc[2].ret)

\* ------------------------------------------- properties of the steady state
\* goroutine p has loaded a current snapshot that names a previous one (a
\* rollover of its connection has completed) and loads that previous
\* snapshot
LoadsPrevious(p) ==
    /\ proc[p].pc = "getPrevious"
    /\ proc'[p].pc = "score"

\* C32: once a rollover of a connection has completed, every later load of
\* its current snapshot returns a previous id that is not null and names a
\* snapshot that exists, so the observation is scored with the blended
\* estimate of two stored snapshots.
SteadyIsAbsorbing ==
    [][\A p \in Procs :
           LoadsPrevious(p)
               => /\ proc[p].previousId # NULL
                  /\ proc[p].previousId \in DOMAIN db.psqr
                  /\ proc'[p].previousPsqr.Perc # F(0)]_vars

\* ------------------------------------------ properties after a lost snapshot
\* the connection record of the connection names a psqr row that is gone
SnapshotMissing(d, connection) ==
    /\ SelectCurrentPsqrId(d, connection, Percentile) # 0
    /\ SelectCurrentPsqrId(d, connection, Percentile) \notin DOMAIN d.psqr

ResetCounters(row) ==
    LET dn == InitialDn(row.perc)
        steps == IF row.count > 5 THEN row.count - 1 ELSE 4
    IN  /\ row.n[0] = 1
        /\ row.count >= 5 => row.n[4] = row.count
        /\ row.count < 5 => row.n = [i \in Idx |-> i + 1]
        /\ row.np = [i \in Idx |-> FAdd(FMul(dn[i], F(steps)), F(1))]

\* C34: whenever Classify has called SwapPsqr and returned, for responses
\* below 500 with include4xx = false, the current snapshot of the
\* connection has reset counters: n[0] = 1, n[4] = count from count 5 on,
\* np restarted from 4*dn + 1; never a reset count with the n and np of the
\* closed window.
RolloverLeavesResetWindow ==
    (proc[1].pc = "done" /\ proc[1].swapped)
        => ResetCounters(Current(db, proc[1].connection))

\* ----------------------------------------- properties of the snapshot chain
\* C35: after any sequence of rollovers every previousPsqrId that is not
\* null, in any psqr row, names a psqr row that exists: SwapPsqr deletes no
\* snapshot that a stored snapshot still names.
ChainReferentialIntegrity ==
    \A id \in DOMAIN db.psqr :
        db.psqr[id].previousPsqrId # NULL
            => db.psqr[id].previousPsqrId \in DOMAIN db.psqr

\* ------------------------------------- properties of a rolled-over window
\* C36: Reset and five Adds leave as marker heights the five added values
\* in ascending order, whatever the heights were before; so in a window
\* that was rolled over and has a count of 5 or more the current estimate
\* is that of the observations of the window alone.
WindowEstimateOwnObservations ==
    \A c \in {Current(db, "a")} :
        (proc[1].pc = "done" /\ c.previousPsqrId # NULL /\ c.count >= 5)
            => /\ c.count = 5 => c.q = proc[2].psqrObj.Q
               /\ c.q[2] = Get(proc[2].psqrObj)

\* ------------------------------------ properties of SwapPsqr with no record
\* C37: SwapPsqr on a connection that has no connection record returns -1
\* and leaves both tables as they were: no snapshot is created, and no
\* connection record is created or changed.
SwapWithoutRecordIsNoOp ==
    [][(/\ calls' = calls + 1
        /\ proc'[1].pc = "swapped"
        /\ SelectCurrentPsqrId(db, proc'[1].connection, Percentile) = 0)
          => /\ proc'[1].newId = -1
             /\ db' = db]_vars

\* C37: SwapPsqr has returned -1 for the connection "b", which has no
\* record, in a repository that holds a snapshot of the connection "a"
SwapWithoutRecordWitness ==
    /\ proc[1].pc = "swapped"
    /\ proc[1].connection = "b"
    /\ proc[1].newId = -1
    /\ SelectCurrentPsqrId(db, "b", Percentile) = 0
    /\ SelectCurrentPsqrId(db, "a", Percentile) \in DOMAIN db.psqr

==========================================================================
